---- MODULE Spec2Model ----
(***************************************************************************)
(* A model of the personal diet tracker: the dashboard calculators          *)
(* (ProgressTracker, DailyOverview, Dashboard), the meal logger and the     *)
(* goal / preference / profile saves against the hosted database.           *)
(*                                                                          *)
(* JavaScript numbers are modelled as exact rationals extended with NaN,    *)
(* +Infinity, -Infinity and undefined; binary rounding and the sign of      *)
(* zero are not modelled.                                                   *)
(***************************************************************************)
EXTENDS Integers, Sequences, FiniteSets, TLC

----------------------------------------------------------------------------
(* JavaScript number values.                                                *)

Abs(i) == IF i < 0 THEN -i ELSE i

RECURSIVE Gcd(_, _)
Gcd(a, b) == IF b = 0 THEN a ELSE Gcd(b, a % b)

\* A finite number n/d in lowest terms with d > 0.
Rat(n, d) ==
  LET s == IF d < 0 THEN -1 ELSE 1
      g == Gcd(Abs(n), Abs(d))
  IN  [t |-> "num", n |-> (s * n) \div g, d |-> (s * d) \div g]

Num(i)    == [t |-> "num", n |-> i, d |-> 1]
NaN       == [t |-> "nan", n |-> 0, d |-> 1]
PosInf    == [t |-> "inf", n |-> 1, d |-> 1]
NegInf    == [t |-> "inf", n |-> -1, d |-> 1]
Undefined == [t |-> "undefined", n |-> 0, d |-> 1]

IsNum(x) == x.t = "num"
IsInf(x) == x.t = "inf"
\* ToNumber(undefined) is NaN.
IsNaN(x) == x.t = "nan" \/ x.t = "undefined"
Sign(x)  == IF x.n > 0 THEN 1 ELSE IF x.n < 0 THEN -1 ELSE 0
Inf(s)   == IF s < 0 THEN NegInf ELSE PosInf

\* a / b
JsDiv(a, b) ==
  IF IsNaN(a) \/ IsNaN(b) THEN NaN
  ELSE IF IsInf(a) THEN (IF IsInf(b) THEN NaN
                         ELSE Inf(Sign(a) * (IF Sign(b) < 0 THEN -1 ELSE 1)))
  ELSE IF IsInf(b) THEN Num(0)
  ELSE IF b.n = 0 THEN (IF a.n = 0 THEN NaN ELSE Inf(Sign(a)))
  ELSE Rat(a.n * b.d, a.d * b.n)

\* a * b
JsMul(a, b) ==
  IF IsNaN(a) \/ IsNaN(b) THEN NaN
  ELSE IF IsInf(a) \/ IsInf(b)
       THEN (IF Sign(a) = 0 \/ Sign(b) = 0 THEN NaN ELSE Inf(Sign(a) * Sign(b)))
  ELSE Rat(a.n * b.n, a.d * b.d)

\* a + b
JsAdd(a, b) ==
  IF IsNaN(a) \/ IsNaN(b) THEN NaN
  ELSE IF IsInf(a) THEN (IF IsInf(b) /\ Sign(a) # Sign(b) THEN NaN ELSE a)
  ELSE IF IsInf(b) THEN b
  ELSE Rat(a.n * b.d + b.n * a.d, a.d * b.d)

\* a - b
JsSub(a, b) ==
  JsAdd(a, IF IsNaN(b) THEN NaN ELSE [b EXCEPT !.n = -b.n])

\* a < b on numbers other than NaN.
JsLess(a, b) ==
  IF IsInf(a) THEN Sign(a) < 0 /\ ~(IsInf(b) /\ Sign(b) < 0)
  ELSE IF IsInf(b) THEN Sign(b) > 0
  ELSE a.n * b.d < b.n * a.d

MathMax(a, b) ==
  IF IsNaN(a) \/ IsNaN(b) THEN NaN ELSE IF JsLess(a, b) THEN b ELSE a

MathMin(a, b) ==
  IF IsNaN(a) \/ IsNaN(b) THEN NaN ELSE IF JsLess(b, a) THEN b ELSE a

\* The value is truthy: not undefined, not NaN, not 0.
Truthy(x) == ~IsNaN(x) /\ ~(IsNum(x) /\ x.n = 0)

\* x || y
JsOr(x, y) == IF Truthy(x) THEN x ELSE y

\* A finite number within [0, 100].
InPercentRange(x) == IsNum(x) /\ x.n >= 0 /\ x.n <= 100 * x.d

----------------------------------------------------------------------------
(* Bounds of the model.                                                     *)

\* Clock ticks per UTC calendar day, and the last instant of the clock.
TicksPerDay == 2
MaxNow == 3
\* The most meal-log rows a component is handed.
MaxLogs == 2

VARIABLES
  now,       \* the wall clock, an instant in ticks since the epoch (UTC)
  tracker,   \* ProgressTracker: its props and what it rendered
  overview,  \* DailyOverview: its props, its goals state and what it rendered
  meal_logs, \* the meal_logs table, in insertion order
  user_goals,\* the user_goals table, in insertion order
  dash,      \* Dashboard: its state and the position of fetchUserData
  meal_food_items, \* the meal_food_items table, in insertion order
  logger,    \* MealLogger: its form and the position of onSubmit
  tabs,      \* the browser tabs of the signed-in user: the settings page
             \* each shows, its form and the position of its onSubmit
  user_preferences, \* the user_preferences table, in insertion order
  user_profiles,    \* the user_profiles table, in insertion order
  auth,      \* AuthProvider: its state, its effect and its calls in flight
  supa,      \* the auth client: its session, the getSession calls it has
             \* not answered, the listeners and the events it has not delivered
  widget,    \* a component with a real-time subscription effect
             \* (DailyOverview or GoalSetting): its effect and its fetch
  channels,  \* the real-time subscriptions that are active, per component
  loader,    \* a component with a loading flag (App, Dashboard or
             \* useMealLogging): the flag and its remote calls in flight
  requester, \* a component that sends remote requests (FoodSearch,
             \* useRecommendations or RecommendationsPage) and its requests
  scanner,   \* BarcodeScanner: its lookups in flight and what they did
  proxy,     \* the request a webhook proxy route is handling
  card,      \* RecommendationCard: its props and what it renders
  signup,    \* SignUpForm and useAuth.signUp: the submission in flight and its effects
  chat_interactions,\* the chat_interactions table, in insertion order
  chat,      \* the dashboard chat widget and the message it is sending
  saves,     \* the save-chat-data requests the route is handling
  wizard,    \* OnboardingFlow: its step, its form and the step kept in localStorage
  tz,        \* the time-zone offset of the device, in ticks east of UTC
  search,    \* FoodSearch: its term, its queries in flight and the results shown
  advice     \* Dashboard: its fetch effect, its weight history and its recommendations

----------------------------------------------------------------------------
(* Dates.                                                                   *)

\* new Date(instant).toISOString().split('T')[0]: the UTC calendar date.
IsoDate(instant) == instant \div TicksPerDay

\* format(new Date(), 'yyyy-MM-dd'): the calendar date of an instant on a
\* device `offset` ticks east of UTC.
LocalDate(instant, offset) == (instant + offset) \div TicksPerDay

\* list.filter(keep), in order.
Filter(list, keep(_)) == SelectSeq(list, keep)

\* list.reduce((acc, x) => add(acc, x), init), left to right.
Reduce(list, add(_, _), init) ==
  LET acc[i \in 0..Len(list)] ==
        IF i = 0 THEN init ELSE add(acc[i - 1], list[i])
  IN  acc[Len(list)]

----------------------------------------------------------------------------
(* ProgressTracker.                                                         *)

WeightValues == {Undefined, Num(70), Num(75), Num(80)}
GoalTypes == {"undefined", "lose_weight", "gain_weight", "maintain_weight"}
CalorieTargets == {Undefined, Num(0), Num(2000)}
LoggedCalories == {Undefined, Num(500), Num(2500)}

\* const currentWeight = profile?.weight_kg || 0
currentWeight(profile) == JsOr(profile.weight_kg, Num(0))
\* const targetWeight = goals?.target_weight_kg || profile?.target_weight || 0
targetWeight(profile, goals) ==
  JsOr(JsOr(goals.target_weight_kg, profile.target_weight), Num(0))
\* const goalType = profile?.goal_type || 'maintain'
goalType(profile) ==
  IF profile.goal_type = "undefined" THEN "maintain" ELSE profile.goal_type

\* Math.min(Math.max(progress, 0), 100)
Clamp(progress) == MathMin(MathMax(progress, Num(0)), Num(100))

calculateWeightProgress(profile, goals) ==
  LET current == currentWeight(profile)
      target  == targetWeight(profile, goals)
  IN  IF ~Truthy(current) \/ ~Truthy(target) THEN Num(0)
      ELSE IF goalType(profile) = "lose_weight" THEN
        LET startWeight == MathMax(current, target)
            progress == JsMul(JsDiv(JsSub(startWeight, current),
                                    JsSub(startWeight, target)), Num(100))
        IN  Clamp(progress)
      ELSE IF goalType(profile) = "gain_weight" THEN
        LET startWeight == MathMin(current, target)
            progress == JsMul(JsDiv(JsSub(current, startWeight),
                                    JsSub(target, startWeight)), Num(100))
        IN  Clamp(progress)
      ELSE Num(0)

calculateCalorieProgress(mealLogs, goals, clock) ==
  IF Len(mealLogs) = 0 \/ ~Truthy(goals.target_calories) THEN Num(0)
  ELSE
    LET today == IsoDate(clock)
        IsToday(log) == IsoDate(log.created_at) = today
        todayLogs == Filter(mealLogs, IsToday)
        AddCalories(sum, log) == JsAdd(sum, JsOr(log.total_calories, Num(0)))
        totalCalories == Reduce(todayLogs, AddCalories, Num(0))
        progress == JsMul(JsDiv(totalCalories, goals.target_calories), Num(100))
    IN  Clamp(progress)

\* One render of ProgressTracker with the given props.
RenderTracker(profile, goals, mealLogs) ==
  [profile |-> profile, goals |-> goals, mealLogs |-> mealLogs,
   weightProgress  |-> calculateWeightProgress(profile, goals),
   calorieProgress |-> calculateCalorieProgress(mealLogs, goals, now)]

TrackerInit ==
  tracker = RenderTracker(
    [weight_kg |-> Undefined, target_weight |-> Undefined, goal_type |-> "undefined"],
    [target_calories |-> Undefined, target_weight_kg |-> Undefined], <<>>)

\* The parent passes a changed profile.
TrackerSetProfile ==
  \E w \in WeightValues, tw \in {Undefined, Num(70), Num(80)}, g \in GoalTypes :
    /\ \/ /\ w # tracker.profile.weight_kg
          /\ tw = tracker.profile.target_weight /\ g = tracker.profile.goal_type
       \/ /\ tw # tracker.profile.target_weight
          /\ w = tracker.profile.weight_kg /\ g = tracker.profile.goal_type
       \/ /\ g # tracker.profile.goal_type
          /\ w = tracker.profile.weight_kg /\ tw = tracker.profile.target_weight
    /\ tracker' = RenderTracker(
         [weight_kg |-> w, target_weight |-> tw, goal_type |-> g],
         tracker.goals, tracker.mealLogs)
    /\ UNCHANGED now

\* The parent passes changed goals.
TrackerSetGoals ==
  \E c \in CalorieTargets, tw \in {Undefined, Num(70)} :
    /\ (c = tracker.goals.target_calories) # (tw = tracker.goals.target_weight_kg)
    /\ tracker' = RenderTracker(tracker.profile,
         [target_calories |-> c, target_weight_kg |-> tw], tracker.mealLogs)
    /\ UNCHANGED now

\* The parent passes a meal-log list with one more row, created now.
TrackerAddLog ==
  \E c \in LoggedCalories :
    /\ Len(tracker.mealLogs) < MaxLogs
    /\ tracker' = RenderTracker(tracker.profile, tracker.goals,
         Append(tracker.mealLogs, [total_calories |-> c, created_at |-> now]))
    /\ UNCHANGED now

\* Time passes; nothing re-renders.
Tick ==
  /\ now < MaxNow
  /\ now' = now + 1

----------------------------------------------------------------------------
(* DailyOverview.                                                           *)

\* The data prop: null, or a DailyData whose fields may be missing.
NoData == [isNull |-> TRUE, calories |-> Undefined, protein |-> Undefined,
           carbs |-> Undefined, fat |-> Undefined]
DailyDataValues ==
  {NoData,
   [isNull |-> FALSE, calories |-> Undefined, protein |-> Undefined,
    carbs |-> Undefined, fat |-> Undefined],
   [isNull |-> FALSE, calories |-> Num(2000), protein |-> Num(150),
    carbs |-> Num(200), fat |-> Num(50)]}

\* The goals state; a null goals reads as every field undefined (goals?.x).
MacroRatio(p, c, f) ==
  [target_protein_ratio |-> p, target_carbs_ratio |-> c, target_fat_ratio |-> f]
RatioValues ==
  {MacroRatio(Undefined, Undefined, Undefined),
   MacroRatio(Num(30), Num(40), Num(30)),
   MacroRatio(Num(20), Num(50), Num(30)),
   MacroRatio(Num(0), Num(60), Num(40))}
OverviewGoals(c, r) ==
  [target_calories |-> c, target_protein_ratio |-> r.target_protein_ratio,
   target_carbs_ratio |-> r.target_carbs_ratio,
   target_fat_ratio |-> r.target_fat_ratio]

\* The rows of the mealLogs prop, without their created_at.
OverviewMeals ==
  {[total_calories |-> Num(500), protein |-> Num(30), carbs |-> Num(50),
    fat |-> Num(20)],
   [total_calories |-> Undefined, protein |-> Num(10), carbs |-> Undefined,
    fat |-> Num(5)]}

ZeroTotals ==
  [calories |-> Num(0), protein |-> Num(0), carbs |-> Num(0), fat |-> Num(0)]

\* (targetRatio / 100) * totalCalories / (targetRatio === goals?.target_fat_ratio ? 9 : 4)
macroTargetGrams(targetRatio, totalCalories, goals) ==
  JsDiv(JsMul(JsDiv(targetRatio, Num(100)), totalCalories),
        IF targetRatio = goals.target_fat_ratio THEN Num(9) ELSE Num(4))

getMacroProgress(current, targetRatio, totalCalories, goals) ==
  IF ~Truthy(targetRatio) \/ totalCalories = Num(0) THEN Num(0)
  ELSE JsMul(JsDiv(current, macroTargetGrams(targetRatio, totalCalories, goals)),
             Num(100))

\* Today's totals of the mealLogs prop.
overviewTotals(mealLogs, clock) ==
  LET today == IsoDate(clock)
      IsToday(log) == IsoDate(log.created_at) = today
      todayLogs == Filter(mealLogs, IsToday)
      AddLog(acc, log) ==
        [calories |-> JsAdd(acc.calories, JsOr(log.total_calories, Num(0))),
         protein  |-> JsAdd(acc.protein, JsOr(log.protein, Num(0))),
         carbs    |-> JsAdd(acc.carbs, JsOr(log.carbs, Num(0))),
         fat      |-> JsAdd(acc.fat, JsOr(log.fat, Num(0)))]
  IN  Reduce(todayLogs, AddLog, ZeroTotals)

\* ratio * totals.calories / perHundred (400 for protein and carbs, 900 for fat)
metricTarget(ratio, totals, perHundred) ==
  IF Truthy(ratio)
  THEN JsDiv(JsMul(ratio, totals.calories), Num(perHundred))
  ELSE Num(0)

overviewPercentages(totals, goals) ==
  LET Of(observed, ratio, perHundred) ==
        IF Truthy(ratio)
        THEN JsMul(JsDiv(observed,
                         JsDiv(JsMul(ratio, totals.calories), Num(perHundred))),
                   Num(100))
        ELSE Num(0)
  IN  [calories |-> IF Truthy(goals.target_calories)
                    THEN JsMul(JsDiv(totals.calories, goals.target_calories),
                               Num(100))
                    ELSE Num(0),
       protein |-> Of(totals.protein, goals.target_protein_ratio, 400),
       carbs   |-> Of(totals.carbs, goals.target_carbs_ratio, 400),
       fat     |-> Of(totals.fat, goals.target_fat_ratio, 900)]

\* One render of DailyOverview; with no data it returns before computing.
RenderOverview(data, goals, mealLogs, clock) ==
  LET currentCalories == JsOr(data.calories, Num(0))
      targetCalories  == JsOr(goals.target_calories, Num(2000))
      totals          == overviewTotals(mealLogs, clock)
  IN  [data |-> data, goals |-> goals, mealLogs |-> mealLogs,
       computed |-> ~data.isNull, today |-> IsoDate(clock)] @@
      IF data.isNull
      THEN [caloriesProgress |-> Num(0), proteinProgress |-> Num(0),
            carbsProgress |-> Num(0), fatProgress |-> Num(0),
            totals |-> ZeroTotals, targets |-> ZeroTotals,
            percentages |-> ZeroTotals]
      ELSE [caloriesProgress |->
              JsMul(JsDiv(currentCalories, targetCalories), Num(100)),
            proteinProgress |->
              getMacroProgress(JsOr(data.protein, Num(0)),
                               goals.target_protein_ratio, currentCalories, goals),
            carbsProgress |->
              getMacroProgress(JsOr(data.carbs, Num(0)),
                               goals.target_carbs_ratio, currentCalories, goals),
            fatProgress |->
              getMacroProgress(JsOr(data.fat, Num(0)),
                               goals.target_fat_ratio, currentCalories, goals),
            totals |-> totals,
            targets |->
              [calories |-> goals.target_calories,
               protein |-> metricTarget(goals.target_protein_ratio, totals, 400),
               carbs   |-> metricTarget(goals.target_carbs_ratio, totals, 400),
               fat     |-> metricTarget(goals.target_fat_ratio, totals, 900)],
            percentages |-> overviewPercentages(totals, goals)]

\* The first render: no data, no goals, no meal logs.
InitialOverview ==
  RenderOverview(NoData,
    OverviewGoals(Undefined, MacroRatio(Undefined, Undefined, Undefined)), <<>>, 0)

OverviewInit == overview = InitialOverview

\* The parent passes a changed data prop.
OverviewSetData ==
  \E d \in DailyDataValues :
    /\ d # overview.data
    /\ overview' = RenderOverview(d, overview.goals, overview.mealLogs, now)
    /\ UNCHANGED now

\* setGoals: the fetched goals row, or a change delivered by the subscription.
OverviewSetGoals ==
  \E c \in CalorieTargets, r \in RatioValues :
    /\ OverviewGoals(c, r) # overview.goals
    /\ overview' = RenderOverview(overview.data, OverviewGoals(c, r),
                                  overview.mealLogs, now)
    /\ UNCHANGED now

\* The parent passes a meal-log list with one more row, created now.
OverviewAddLog ==
  \E m \in OverviewMeals :
    /\ Len(overview.mealLogs) < MaxLogs
    /\ overview' = RenderOverview(overview.data, overview.goals,
         Append(overview.mealLogs, m @@ [created_at |-> now]), now)
    /\ UNCHANGED now

\* Any other state change (typing in the chat box, a toast) renders the
\* component again with the same props, at the current time.
OverviewRerender ==
  /\ overview' = RenderOverview(overview.data, overview.goals,
                                overview.mealLogs, now)
  /\ UNCHANGED now

----------------------------------------------------------------------------
(* The database tables the dashboard reads.                                 *)

Users == {"u1", "u2"}
\* The signed-in user.
Me == "u1"

\* meal_date of a row written without one (handleCaloriesSubmit).
NoDate == -2

\* Rows of meal_logs, without id, user_id and meal_date: a row as logMeal
\* writes it, and a row as handleCaloriesSubmit writes it (no total_* columns).
\* The columns no calculation reads (meal_type, meal_time, notes, source,
\* created_at) are left out.
MealLogRows ==
  {[total_calories |-> Num(2500), total_protein |-> Num(30),
    total_carbs |-> Num(50), total_fat |-> Num(20)],
   [total_calories |-> Undefined, total_protein |-> Undefined,
    total_carbs |-> Undefined, total_fat |-> Undefined]}

\* A row of user_goals.
GoalRow(user, goals) == [user_id |-> user] @@ goals

\* Rows the signed-in user's user_goals row can hold.
GoalRows ==
  {GoalRow(Me, OverviewGoals(Num(2000), MacroRatio(Num(30), Num(40), Num(30)))),
   GoalRow(Me, OverviewGoals(Num(0), MacroRatio(Num(20), Num(50), Num(30)))),
   GoalRow(Me, OverviewGoals(Num(2000), MacroRatio(Undefined, Undefined, Undefined)))}

\* .from(table).select().eq('user_id', user)
rowsOf(table, user) == SelectSeq(table, LAMBDA row : row.user_id = user)

\* supabase.from('meal_logs').insert(row): a meal logged by some user for
\* some calendar date, or today's calories entered on the dashboard.
DbInsertMeal ==
  \E u \in Users, m \in MealLogRows, date \in {NoDate} \cup 0..IsoDate(MaxNow) :
    /\ Len(meal_logs) < MaxLogs
    /\ (date = NoDate) = (m.total_calories = Undefined)
    /\ meal_logs' = Append(meal_logs,
         m @@ [id |-> Len(meal_logs) + 1, user_id |-> u, meal_date |-> date])
    /\ UNCHANGED <<now, user_goals>>

\* The signed-in user's goals row is inserted or updated.
DbSaveGoals ==
  \E g \in GoalRows :
    /\ user_goals # <<g>>
    /\ user_goals' = <<g>>
    /\ UNCHANGED <<now, meal_logs>>

----------------------------------------------------------------------------
(* Dashboard.                                                               *)

\* parseFloat of a numeric column; a null column parses to NaN.
parseFloat(x) == IF IsNum(x) \/ IsInf(x) THEN x ELSE NaN

\* The gram targets derived from the fetched goals row.
mappedGoals(userGoals) ==
  LET Grams(ratio, kcalPerGram) ==
        JsDiv(JsMul(JsDiv(parseFloat(ratio), Num(100)), userGoals.target_calories),
              Num(kcalPerGram))
  IN  [calories |-> userGoals.target_calories,
       protein  |-> Grams(userGoals.target_protein_ratio, 4),
       carbs    |-> Grams(userGoals.target_carbs_ratio, 4),
       fat      |-> Grams(userGoals.target_fat_ratio, 9)]

\* A faulty variant: the query forgets .eq('meal_date', today).
todaysMeals_AnyDate(table, user, today) ==
  LET Matches(row) == row.user_id = user
  IN  Filter(table, Matches)

\* .from('meal_logs').select('*').eq('user_id', user.id).eq('meal_date', today)
todaysMeals(table, user, today) ==
  LET Matches(row) == row.user_id = user /\ row.meal_date = today
  IN  Filter(table, Matches)

\* meals.reduce(...): the nutrition totals of the fetched rows.
dashboardNutrition(meals) ==
  LET AddMeal(acc, meal) ==
        [calories |-> JsAdd(acc.calories, JsOr(meal.total_calories, Num(0))),
         protein  |-> JsAdd(acc.protein, JsOr(meal.total_protein, Num(0))),
         carbs    |-> JsAdd(acc.carbs, JsOr(meal.total_carbs, Num(0))),
         fat      |-> JsAdd(acc.fat, JsOr(meal.total_fat, Num(0)))]
  IN  Reduce(meals, AddMeal, ZeroTotals)

\* The state Dashboard mounts with.
InitialDash ==
  [pc |-> "idle", today |-> 0, fetched |-> FALSE, fetchedRows |-> 0,
   nutritionData |-> ZeroTotals,
   goals |-> [calories |-> Num(2000), protein |-> Num(150),
              carbs |-> Num(250), fat |-> Num(70)]]

DashInit == dash = InitialDash

\* fetchUserData up to its first await: today's meals are queried.  The query
\* fails (the error is reported and the fetch ends) or answers, and the
\* totals of the answer are stored.
DashFetchMeals ==
  /\ dash.pc = "idle"
  /\ \/ dash' = dash
     \/ dash' = [dash EXCEPT
          !.pc = "goals", !.today = IsoDate(now), !.fetched = TRUE,
          !.fetchedRows = Len(meal_logs),
          !.nutritionData =
             dashboardNutrition(todaysMeals(meal_logs, Me, IsoDate(now)))]
  /\ UNCHANGED <<now, meal_logs, user_goals>>

\* fetchUserData after its second await: the goals row is read with
\* .single(), which is an error when there is no row; a row is mapped to
\* gram targets.
DashFetchGoals ==
  /\ dash.pc = "goals"
  /\ \/ dash' = [dash EXCEPT !.pc = "idle"]
     \/ /\ Len(rowsOf(user_goals, Me)) = 1
        /\ dash' = [dash EXCEPT !.pc = "idle",
                                 !.goals = mappedGoals(rowsOf(user_goals, Me)[1])]
  /\ UNCHANGED <<now, meal_logs, user_goals>>

\* The value each Progress bar of the Nutrition Progress card is handed.
dashboardBars(d) ==
  LET Bar(consumed, goal) == JsMul(JsDiv(consumed, goal), Num(100))
  IN  [calories |-> Bar(d.nutritionData.calories, d.goals.calories),
       protein  |-> Bar(d.nutritionData.protein, d.goals.protein),
       carbs    |-> Bar(d.nutritionData.carbs, d.goals.carbs),
       fat      |-> Bar(d.nutritionData.fat, d.goals.fat)]

----------------------------------------------------------------------------
(* MealLogger.                                                              *)

\* The most food items in the meal form.
MaxItems == 2

\* Foods the search, the scanner and quick add can hand over: per-serving
\* values.
Foods ==
  {[name |-> "apple", calories |-> Num(100), protein |-> Num(10),
    carbs |-> Num(20), fat |-> Num(5), unit |-> "piece"],
   [name |-> "bread", calories |-> Num(250), protein |-> Num(0),
    carbs |-> Num(30), fat |-> Num(10), unit |-> "slice"]}
Quantities == {1, 2}

\* A faulty variant: every food is appended, a matching entry or not.
handleAddFoodItem_AlwaysAppend(food_items, food, quantity) ==
  Append(food_items, food @@ [quantity |-> Num(quantity)])

\* handleAddFoodItem: a food whose name and unit match an entry adds its
\* quantity to that entry; any other food is appended.
handleAddFoodItem(food_items, food, quantity) ==
  LET existing == {i \in 1..Len(food_items) :
                     food_items[i].name = food.name /\ food_items[i].unit = food.unit}
  IN  IF existing # {}
      THEN LET existingIndex == CHOOSE i \in existing : \A j \in existing : i <= j
           IN  [food_items EXCEPT ![existingIndex].quantity =
                  JsAdd(JsOr(food_items[existingIndex].quantity, Num(0)),
                        Num(quantity))]
      ELSE Append(food_items, food @@ [quantity |-> Num(quantity)])

\* A faulty variant: the totals add the per-serving values and forget the quantity.
totalNutrition_NoQuantity(food_items) ==
  LET AddItem(acc, item) ==
        [calories |-> JsAdd(acc.calories, item.calories),
         protein  |-> JsAdd(acc.protein, item.protein),
         carbs    |-> JsAdd(acc.carbs, item.carbs),
         fat      |-> JsAdd(acc.fat, item.fat)]
  IN  Reduce(food_items, AddItem, ZeroTotals)

\* data.food_items.reduce(...): per-serving value times quantity, summed.
totalNutrition(food_items) ==
  LET AddItem(acc, item) ==
        [calories |-> JsAdd(acc.calories, JsMul(item.calories, item.quantity)),
         protein  |-> JsAdd(acc.protein, JsMul(item.protein, item.quantity)),
         carbs    |-> JsAdd(acc.carbs, JsMul(item.carbs, item.quantity)),
         fat      |-> JsAdd(acc.fat, JsMul(item.fat, item.quantity))]
  IN  Reduce(food_items, AddItem, ZeroTotals)

\* The mealData onSubmit hands to submitMealLog.
mealDataOf(food_items, meal_date) ==
  LET total == totalNutrition(food_items)
  IN  [user_id |-> Me, meal_date |-> meal_date, food_items |-> food_items,
       total_calories |-> total.calories, total_protein |-> total.protein,
       total_carbs |-> total.carbs, total_fat |-> total.fat]

\* The rows logMeal inserts into meal_food_items for meal log `id`.
foodItemRows(mealData, id) ==
  [i \in 1..Len(mealData.food_items) |->
     mealData.food_items[i] @@ [meal_log_id |-> id]]

NoMealData == mealDataOf(<<>>, 0)

InitialLogger ==
  [pc |-> "idle", food_items |-> <<>>, mealData |-> NoMealData,
   mealLogId |-> 0, outcome |-> "none"]

LoggerInit == logger = InitialLogger

\* A food is picked in the search, the scanner or quick add.
LoggerAddFoodItem ==
  \E food \in Foods, q \in Quantities :
    LET items == handleAddFoodItem(logger.food_items, food, q)
    IN  /\ Len(items) <= MaxItems
        /\ \A i \in 1..Len(items) : items[i].quantity.n \in Quantities
        /\ logger' = [logger EXCEPT !.food_items = items]
        /\ UNCHANGED <<now, meal_logs, meal_food_items>>

\* The quantity of an entry is edited in the form.
LoggerSetQuantity ==
  \E i \in 1..Len(logger.food_items), q \in Quantities :
    /\ logger.food_items[i].quantity # Num(q)
    /\ logger' = [logger EXCEPT !.food_items[i].quantity = Num(q)]
    /\ UNCHANGED <<now, meal_logs, meal_food_items>>

\* remove(index)
LoggerRemoveItem ==
  \E i \in 1..Len(logger.food_items) :
    /\ logger' = [logger EXCEPT !.food_items =
         SubSeq(logger.food_items, 1, i - 1)
           \o SubSeq(logger.food_items, i + 1, Len(logger.food_items))]
    /\ UNCHANGED <<now, meal_logs, meal_food_items>>

\* onSubmit up to the first await of logMeal: the button is enabled with at
\* least one item and no submission in flight; the totals are computed and the
\* request is built.
LoggerSubmit ==
  /\ logger.pc = "idle"
  /\ Len(logger.food_items) > 0
  /\ Len(meal_logs) < MaxLogs
  /\ logger' = [logger EXCEPT
       !.pc = "insertMealLog", !.outcome = "none",
       !.mealData = mealDataOf(logger.food_items, LocalDate(now, tz))]
  /\ UNCHANGED <<now, meal_logs, meal_food_items>>

\* logMeal: the insert into meal_logs answers.  An error is thrown to
\* onSubmit, which reports it and keeps the form.
LoggerInsertMealLog ==
  /\ logger.pc = "insertMealLog"
  /\ \/ /\ logger' = [logger EXCEPT !.pc = "idle", !.outcome = "error"]
        /\ UNCHANGED meal_logs
     \/ /\ meal_logs' = Append(meal_logs,
             [id |-> Len(meal_logs) + 1, user_id |-> logger.mealData.user_id,
              meal_date |-> logger.mealData.meal_date,
              total_calories |-> logger.mealData.total_calories,
              total_protein |-> logger.mealData.total_protein,
              total_carbs |-> logger.mealData.total_carbs,
              total_fat |-> logger.mealData.total_fat])
        /\ logger' = [logger EXCEPT !.pc = "insertFoodItems",
                                    !.mealLogId = Len(meal_logs) + 1]
  /\ UNCHANGED <<now, meal_food_items>>

\* logMeal: the insert into meal_food_items answers.  An error is thrown to
\* onSubmit; on success onSubmit shows the toast and resets the form.
LoggerInsertFoodItems ==
  /\ logger.pc = "insertFoodItems"
  /\ \/ /\ logger' = [logger EXCEPT !.pc = "idle", !.outcome = "error"]
        /\ UNCHANGED meal_food_items
     \/ /\ meal_food_items' =
             meal_food_items \o foodItemRows(logger.mealData, logger.mealLogId)
        /\ logger' = [logger EXCEPT !.pc = "idle", !.outcome = "logged",
                                    !.food_items = <<>>]
  /\ UNCHANGED <<now, meal_logs>>

----------------------------------------------------------------------------
(* GoalSetting, Preferences and UserProfile in the tabs of one user.        *)

Tabs == {1, 2}
Views == {"goals", "preferences", "profile"}

\* The macro ratios a goals form can hold.
GoalForms ==
  {MacroRatio(Num(30), Num(40), Num(30)),
   MacroRatio(Num(30), Num(40), Num(40)),
   MacroRatio(Num(0), Num(60), Num(60)),
   MacroRatio(Num(0), Num(0), Num(0))}

\* useState<UserGoals> and the form's defaultValues.
DefaultGoals == MacroRatio(Num(30), Num(40), Num(30))

\* The values a preferences or profile form can hold.
SettingValues == {"a", "b"}

\* (protein || 0) + (carbs || 0) + (fat || 0)
macroSum(form) ==
  JsAdd(JsAdd(JsOr(form.target_protein_ratio, Num(0)),
              JsOr(form.target_carbs_ratio, Num(0))),
        JsOr(form.target_fat_ratio, Num(0)))

\* macroSum > 0 && macroSum !== 100
showMacroSumWarning(form) ==
  JsLess(Num(0), macroSum(form)) /\ macroSum(form) # Num(100)

\* formState.isDirty: the form differs from its default values.
isDirty(form, defaultValues) == form # defaultValues

\* A faulty variant: the warning does not disable the Save Goals button.
saveDisabled_WarningOnly(form, defaultValues) == ~isDirty(form, defaultValues)

\* disabled={!isDirty || showMacroSumWarning}
saveDisabled(form, defaultValues) ==
  ~isDirty(form, defaultValues) \/ showMacroSumWarning(form)

\* The refinement of goalSettingSchema: three truthy ratios must sum to 100.
goalSettingSchema(data) ==
  IF /\ Truthy(data.target_protein_ratio) /\ Truthy(data.target_carbs_ratio)
     /\ Truthy(data.target_fat_ratio)
  THEN JsAdd(JsAdd(data.target_protein_ratio, data.target_carbs_ratio),
             data.target_fat_ratio) = Num(100)
  ELSE TRUE

\* The row a goals form writes.
goalsRowOf(data) == GoalRow(Me, OverviewGoals(Num(2000), data))

\* A row of user_preferences or user_profiles.
SettingRow(user, value) == [user_id |-> user, value |-> value]

\* .upsert(row, { onConflict: 'user_id' }): the row of that user is replaced,
\* or the row is inserted when the user has none.
Upsert(table, row) ==
  IF \E i \in 1..Len(table) : table[i].user_id = row.user_id
  THEN [i \in 1..Len(table) |->
          IF table[i].user_id = row.user_id THEN row ELSE table[i]]
  ELSE Append(table, row)

\* .update(values).eq('user_id', user)
UpdateWhere(table, user, row) ==
  [i \in 1..Len(table) |-> IF table[i].user_id = user THEN row ELSE table[i]]

\* The UNIQUE constraint on user_goals.user_id.
ViolatesUnique(table, row) ==
  \E i \in 1..Len(table) : table[i].user_id = row.user_id

ClosedTab ==
  [view |-> "none", pc |-> "idle", form |-> DefaultGoals,
   defaultValues |-> DefaultGoals, data |-> DefaultGoals, value |-> "a",
   outcome |-> "none", errorCode |-> "none"]

TabsInit == tabs = [t \in Tabs |-> ClosedTab]

\* A tab opens one of the settings pages.  GoalSetting starts loading the
\* user's goals and shows the spinner.
TabOpen(t) ==
  \E view \in Views :
    /\ tabs[t].view = "none"
    /\ tabs' = [tabs EXCEPT ![t].view = view,
                            ![t].pc = IF view = "goals" THEN "loading" ELSE "idle"]
    /\ UNCHANGED <<now, user_goals, user_preferences, user_profiles>>

\* fetchUserGoals answers: a row becomes the goals state and the form is
\* reset to it; no row (PGRST116) keeps the defaults.
GoalsLoaded(t) ==
  /\ tabs[t].view = "goals" /\ tabs[t].pc = "loading"
  /\ LET rows == rowsOf(user_goals, Me)
         goals == IF Len(rows) = 1
                  THEN MacroRatio(rows[1].target_protein_ratio,
                                  rows[1].target_carbs_ratio,
                                  rows[1].target_fat_ratio)
                  ELSE tabs[t].defaultValues
     IN  tabs' = [tabs EXCEPT ![t].pc = "idle", ![t].form = goals,
                              ![t].defaultValues = goals]
  /\ UNCHANGED <<now, user_goals, user_preferences, user_profiles>>

\* The macro ratio inputs are edited.
GoalsEdit(t) ==
  \E form \in GoalForms :
    /\ tabs[t].view = "goals" /\ tabs[t].pc = "idle"
    /\ form # tabs[t].form
    /\ tabs' = [tabs EXCEPT ![t].form = form, ![t].outcome = "none",
                            ![t].errorCode = "none"]
    /\ UNCHANGED <<now, user_goals, user_preferences, user_profiles>>

\* Save Goals is pressed: the button is enabled, handleSubmit validates the
\* form against goalSettingSchema and calls onSubmit, which sends the select.
GoalsSubmit(t) ==
  /\ tabs[t].view = "goals" /\ tabs[t].pc = "idle"
  /\ ~saveDisabled(tabs[t].form, tabs[t].defaultValues)
  /\ tabs' = IF goalSettingSchema(tabs[t].form)
             THEN [tabs EXCEPT ![t].pc = "select", ![t].data = tabs[t].form,
                               ![t].outcome = "none", ![t].errorCode = "none"]
             ELSE [tabs EXCEPT ![t].outcome = "invalid",
                               ![t].errorCode = "root"]
  /\ UNCHANGED <<now, user_goals, user_preferences, user_profiles>>

\* onSubmit: the select of the user's row id answers.  No row (PGRST116) is
\* not an error; a row sends the update, no row sends the insert.
GoalsSelect(t) ==
  /\ tabs[t].view = "goals" /\ tabs[t].pc = "select"
  /\ tabs' = [tabs EXCEPT ![t].pc =
       IF Len(rowsOf(user_goals, Me)) = 1 THEN "update" ELSE "insert"]
  /\ UNCHANGED <<now, user_goals, user_preferences, user_profiles>>

\* onSubmit: the insert answers.  The database refuses a second row for the
\* user (unique violation 23505) and the error is reported; otherwise the row
\* is stored, the toast is shown and the form is reset to the saved data.
GoalsInsert(t) ==
  /\ tabs[t].view = "goals" /\ tabs[t].pc = "insert"
  /\ IF ViolatesUnique(user_goals, goalsRowOf(tabs[t].data))
     THEN /\ tabs' = [tabs EXCEPT ![t].pc = "idle", ![t].outcome = "error",
                                  ![t].errorCode = "23505"]
          /\ UNCHANGED user_goals
     ELSE /\ user_goals' = Append(user_goals, goalsRowOf(tabs[t].data))
          /\ tabs' = [tabs EXCEPT ![t].pc = "idle", ![t].outcome = "saved",
                                  ![t].form = tabs[t].data,
                                  ![t].defaultValues = tabs[t].data]
  /\ UNCHANGED <<now, user_preferences, user_profiles>>

\* onSubmit: the update answers; the toast is shown and the form is reset to
\* the saved data.
GoalsUpdate(t) ==
  /\ tabs[t].view = "goals" /\ tabs[t].pc = "update"
  /\ user_goals' = UpdateWhere(user_goals, Me, goalsRowOf(tabs[t].data))
  /\ tabs' = [tabs EXCEPT ![t].pc = "idle", ![t].outcome = "saved",
                          ![t].form = tabs[t].data,
                          ![t].defaultValues = tabs[t].data]
  /\ UNCHANGED <<now, user_preferences, user_profiles>>

\* A request of onSubmit fails for another reason (network, policy): the
\* error is reported and nothing is written.
GoalsRequestFails(t) ==
  /\ tabs[t].view = "goals" /\ tabs[t].pc \in {"select", "insert", "update"}
  /\ tabs' = [tabs EXCEPT ![t].pc = "idle", ![t].outcome = "error",
                          ![t].errorCode = "other"]
  /\ UNCHANGED <<now, user_goals, user_preferences, user_profiles>>

\* Preferences or UserProfile: onSubmit sends the upsert of the form's values.
SettingsSubmit(t) ==
  \E value \in SettingValues :
    /\ tabs[t].view \in {"preferences", "profile"} /\ tabs[t].pc = "idle"
    /\ tabs' = [tabs EXCEPT ![t].pc = "upsert", ![t].value = value,
                            ![t].outcome = "none", ![t].errorCode = "none"]
    /\ UNCHANGED <<now, user_goals, user_preferences, user_profiles>>

\* Preferences or UserProfile: the upsert answers, with an error that is
\* reported or with the row written.
SettingsUpsert(t) ==
  /\ tabs[t].view \in {"preferences", "profile"} /\ tabs[t].pc = "upsert"
  /\ \/ /\ tabs' = [tabs EXCEPT ![t].pc = "idle", ![t].outcome = "error",
                                ![t].errorCode = "other"]
        /\ UNCHANGED <<user_preferences, user_profiles>>
     \/ /\ tabs' = [tabs EXCEPT ![t].pc = "idle", ![t].outcome = "saved"]
        /\ IF tabs[t].view = "preferences"
           THEN /\ user_preferences' =
                     Upsert(user_preferences, SettingRow(Me, tabs[t].value))
                /\ UNCHANGED user_profiles
           ELSE /\ user_profiles' =
                     Upsert(user_profiles, SettingRow(Me, tabs[t].value))
                /\ UNCHANGED user_preferences
  /\ UNCHANGED <<now, user_goals>>

----------------------------------------------------------------------------
(* AuthProvider and the auth client.                                        *)

\* The most session changes of the auth client in one behaviour.
MaxAuthChanges == 2

NoSession == "null"
Sessions == {"s1", "s2"}

\* session?.user || null
userOf(session) ==
  IF session = NoSession THEN "null"
  ELSE IF session = "s1" THEN "u1" ELSE "u2"

\* useState: session null, user null, isLoading true, isAuthReady false.
\* reported tells whether handleError has been called.
\* effectRuns counts the runs of the effect; effectReady is the isAuthReady
\* the effect last ran with (its dependency); listener is the subscription
\* its teardown unsubscribes; op is the signIn / signOut awaiting its answer.
InitialAuth ==
  [phase |-> "initial", session |-> NoSession, user |-> "null",
   isLoading |-> TRUE, isAuthReady |-> FALSE,
   effectRuns |-> 0, effectReady |-> FALSE, listener |-> 0, op |-> "none",
   reported |-> FALSE]

InitialSupa ==
  [session |-> NoSession, changes |-> 0, getSession |-> {},
   listeners |-> {}, events |-> <<>>]

AuthInit == auth = InitialAuth /\ supa = InitialSupa

\* The effect body: getInitialSession() asks the client for its session and
\* onAuthStateChange registers a new listener.
authEffectRun(a, client) ==
  [client EXCEPT
     !.getSession = @ \cup {[call |-> a.effectRuns + 1, session |-> client.session]},
     !.listeners = @ \cup {a.effectRuns + 1}]

\* A faulty variant: the teardown leaves the listener subscribed.
authTeardown_Keep(a, listeners) == listeners

\* subscription?.unsubscribe()
authTeardown(a, listeners) == listeners \ {a.listener}

\* The client notifies every listener of a new session.
notifyAll(client, session) ==
  LET ids == client.listeners
      order[n \in 0..2] ==
        IF n = 0 THEN <<>>
        ELSE IF n \in ids THEN Append(order[n - 1], [listener |-> n, session |-> session])
        ELSE order[n - 1]
  IN  client.events \o order[2]

\* AuthProvider mounts and its effect runs for the first time.
AuthMount ==
  /\ auth.phase = "initial"
  /\ supa' = authEffectRun(auth, supa)
  /\ auth' = [auth EXCEPT !.phase = "mounted", !.effectRuns = 1,
                          !.effectReady = auth.isAuthReady, !.listener = 1]

\* isAuthReady, a dependency of the effect, has changed: the teardown of the
\* last run is called and the effect runs again.
AuthEffectRerun ==
  /\ auth.phase = "mounted"
  /\ auth.effectReady # auth.isAuthReady
  /\ supa' = authEffectRun(auth,
               [supa EXCEPT !.listeners = authTeardown(auth, supa.listeners)])
  /\ auth' = [auth EXCEPT !.effectRuns = @ + 1,
                          !.effectReady = auth.isAuthReady,
                          !.listener = auth.effectRuns + 1]

\* AuthProvider unmounts: the teardown of the last run is called.
AuthUnmount ==
  /\ auth.phase = "mounted"
  /\ supa' = [supa EXCEPT !.listeners = authTeardown(auth, supa.listeners)]
  /\ auth' = [auth EXCEPT !.phase = "unmounted"]

\* A faulty variant: the flags are set in the try block, not in finally.
afterGetSession_NoFinally(a, ok, session) ==
  IF ok
  THEN [a EXCEPT !.session = session, !.user = userOf(session),
                 !.isLoading = FALSE, !.isAuthReady = TRUE]
  ELSE [a EXCEPT !.session = NoSession, !.user = "null", !.reported = TRUE]

\* getInitialSession after its await: the session found is stored, or the
\* error is reported and user and session are cleared; in both cases
\* isLoading is lowered and isAuthReady raised.
afterGetSession(a, ok, session) ==
  IF ok
  THEN [a EXCEPT !.session = session, !.user = userOf(session),
                 !.isLoading = FALSE, !.isAuthReady = TRUE]
  ELSE [a EXCEPT !.session = NoSession, !.user = "null", !.reported = TRUE,
                 !.isLoading = FALSE, !.isAuthReady = TRUE]

\* The client answers a getSession call.  Setting the state of an unmounted
\* component does nothing.
getInitialSession ==
  \E answer \in supa.getSession, ok \in BOOLEAN :
    /\ supa' = [supa EXCEPT !.getSession = @ \ {answer}]
    /\ auth' = IF auth.phase # "mounted" THEN auth
               ELSE afterGetSession(auth, ok, answer.session)

\* The client delivers its oldest event.  A listener that is still
\* subscribed stores the event's session, lowers isLoading and raises
\* isAuthReady.
onAuthStateChange ==
  /\ supa.events # <<>>
  /\ supa' = [supa EXCEPT !.events = Tail(@)]
  /\ LET event == Head(supa.events)
     IN  auth' = IF auth.phase # "mounted" \/ event.listener \notin supa.listeners
                 THEN auth
                 ELSE [auth EXCEPT !.session = event.session,
                                   !.user = userOf(event.session),
                                   !.isLoading = FALSE, !.isAuthReady = TRUE]

\* The session of the client changes without a call of this provider
\* (another tab signs in or out, the token is refreshed).
SessionChanges ==
  \E session \in Sessions \cup {NoSession} :
    /\ supa.changes < MaxAuthChanges
    /\ session # supa.session
    /\ supa' = [supa EXCEPT !.session = session, !.changes = @ + 1,
                            !.events = notifyAll(supa, session)]
    /\ UNCHANGED auth

\* signIn / signUp / signOut up to their await: isLoading is raised.
AuthOpStarts ==
  \E op \in {"signIn", "signOut"} :
    /\ auth.phase = "mounted" /\ auth.op = "none"
    /\ auth' = [auth EXCEPT !.isLoading = TRUE, !.op = op]
    /\ UNCHANGED supa

\* signIn / signOut after their await.  On success the client has changed its
\* session and notified the listeners, and signOut clears session and user;
\* on error the error is reported.  In both cases isLoading is lowered.
AuthOpReturns ==
  \E ok \in BOOLEAN, session \in Sessions :
    /\ auth.phase = "mounted" /\ auth.op # "none"
    /\ ok => supa.changes < MaxAuthChanges
    /\ LET next == IF auth.op = "signOut" THEN NoSession ELSE session
       IN  supa' = IF ok
                   THEN [supa EXCEPT !.session = next, !.changes = @ + 1,
                                     !.events = notifyAll(supa, next)]
                   ELSE supa
    /\ auth' = [auth EXCEPT
         !.op = "none", !.isLoading = FALSE,
         !.reported = IF ok THEN @ ELSE TRUE,
         !.session = IF ok /\ auth.op = "signOut" THEN NoSession ELSE @,
         !.user = IF ok /\ auth.op = "signOut" THEN "null" ELSE @]

----------------------------------------------------------------------------
(* The real-time subscription effects of DailyOverview and GoalSetting.     *)

\* The most subscriptions of one component the real-time client keeps.
MaxSubscriptions == 3

Subscribers == {"DailyOverview", "GoalSetting"}

\* effectUser and effectReady are the dependencies the effect last ran with;
\* subscribed tells whether that run has a subscription to tear down.
InitialWidget ==
  [component |-> "none", phase |-> "initial", effectUser |-> "null",
   effectReady |-> FALSE, fetch |-> "none", subscribed |-> FALSE]

WidgetInit ==
  /\ widget = InitialWidget
  /\ channels = [c \in Subscribers |-> 0]

\* The dependencies of the component's effect: user?.id, and for GoalSetting
\* isAuthReady as well.
widgetDeps(component, a) ==
  [user |-> a.user,
   ready |-> IF component = "GoalSetting" THEN a.isAuthReady ELSE FALSE]

\* fetchLatestGoals / fetchUserGoals up to their await: without a user (and,
\* in GoalSetting, before the auth state is ready) nothing is fetched.
widgetFetch(component, a) ==
  IF a.user = "null" \/ (component = "GoalSetting" /\ ~a.isAuthReady)
  THEN "none" ELSE "pending"

\* The effect body: the fetch is started and the channel is subscribed.
widgetEffectRun(w, a) ==
  [w EXCEPT !.effectUser = widgetDeps(w.component, a).user,
            !.effectReady = widgetDeps(w.component, a).ready,
            !.fetch = widgetFetch(w.component, a),
            !.subscribed = TRUE]

\* A faulty variant: the teardown unsubscribes only when the fetch has
\* answered.
widgetTeardown_AfterFetch(w, active) ==
  IF w.subscribed /\ w.fetch \in {"done", "failed"} THEN active - 1 ELSE active

\* goalsSubscription.unsubscribe()
widgetTeardown(w, active) == IF w.subscribed THEN active - 1 ELSE active

\* The component mounts and its effect runs for the first time.
WidgetMount ==
  \E component \in Subscribers :
    /\ widget.phase = "initial"
    /\ widget' = widgetEffectRun(
                   [widget EXCEPT !.component = component, !.phase = "mounted"],
                   auth)
    /\ channels' = [channels EXCEPT ![component] = @ + 1]
    /\ UNCHANGED <<auth, supa>>

\* A dependency has changed: the teardown of the last run is called and the
\* effect runs again.
WidgetEffectRerun ==
  /\ widget.phase = "mounted"
  /\ widgetDeps(widget.component, auth) #
       [user |-> widget.effectUser, ready |-> widget.effectReady]
  /\ widgetTeardown(widget, channels[widget.component]) < MaxSubscriptions
  /\ widget' = widgetEffectRun(widget, auth)
  /\ channels' = [channels EXCEPT ![widget.component] =
                    widgetTeardown(widget, @) + 1]
  /\ UNCHANGED <<auth, supa>>

\* The component unmounts: the teardown of the last run is called.
WidgetUnmount ==
  /\ widget.phase = "mounted"
  /\ widget' = [widget EXCEPT !.phase = "unmounted", !.subscribed = FALSE]
  /\ channels' = [channels EXCEPT ![widget.component] = widgetTeardown(widget, @)]
  /\ UNCHANGED <<auth, supa>>

\* The fetch of the goals answers, with a row or with an error.
WidgetFetchReturns ==
  \E result \in {"done", "failed"} :
    /\ widget.fetch = "pending"
    /\ widget' = [widget EXCEPT !.fetch = result]
    /\ UNCHANGED <<auth, supa, channels>>

----------------------------------------------------------------------------
(* Loading flags: App and Dashboard checkOnboardingStatus, submitMealLog.   *)

\* The most runs of one component's handler in one behaviour.
MaxCalls == 3

Loaders == {"App", "Dashboard", "useMealLogging"}

\* useState of the flag: isLoadingOnboardingStatus and Dashboard's isLoading
\* start true, isLogging starts false.
initialFlag(component) == component # "useMealLogging"

\* first and second count the calls awaiting their first and their second
\* remote answer; runs counts the runs of the handler and calls the remote
\* calls they started; reported tells whether the last call that ended
\* reported an error.
InitialLoader ==
  [component |-> "none", flag |-> FALSE, first |-> 0, second |-> 0,
   runs |-> 0, calls |-> 0, reported |-> FALSE]

LoaderInit == loader = InitialLoader

\* The component mounts.
LoaderMount ==
  \E component \in Loaders :
    /\ loader.component = "none"
    /\ loader' = [loader EXCEPT !.component = component,
                                !.flag = initialFlag(component)]

\* App: the effect runs checkOnboardingStatus.  Before the auth state is
\* ready, or while it is loading, nothing happens; without a user the flag is
\* raised and lowered at once; with a user the flag is raised and the profile
\* is requested.
AppCheckOnboarding ==
  \E isAuthReady \in BOOLEAN, isLoading \in BOOLEAN, user \in {"null", "u1"} :
    /\ loader.component = "App"
    /\ loader.runs < MaxCalls
    /\ loader' =
         IF ~isAuthReady \/ isLoading THEN [loader EXCEPT !.runs = @ + 1]
         ELSE IF user = "null" THEN [loader EXCEPT !.runs = @ + 1, !.flag = FALSE]
         ELSE [loader EXCEPT !.runs = @ + 1, !.calls = @ + 1, !.flag = TRUE,
                             !.first = @ + 1]

\* App: the profile request answers (a row, no row, or an error that is
\* reported); the finally block lowers the flag.
AppProfileReturns ==
  \E ok \in BOOLEAN :
    /\ loader.component = "App" /\ loader.first > 0
    /\ loader' = [loader EXCEPT !.first = @ - 1, !.flag = FALSE,
                                !.reported = ~ok]

\* Dashboard: the effect runs checkOnboardingStatus.  Without a user the flag
\* is lowered; with a user the profile is requested.
DashCheckOnboarding ==
  \E user \in {"null", "u1"} :
    /\ loader.component = "Dashboard"
    /\ loader.runs < MaxCalls
    /\ loader' =
         IF user = "null" THEN [loader EXCEPT !.runs = @ + 1, !.flag = FALSE]
         ELSE [loader EXCEPT !.runs = @ + 1, !.calls = @ + 1, !.first = @ + 1]

\* Dashboard: the profile request answers.  An error or an incomplete
\* profile ends the check and lowers the flag; a complete profile requests
\* goals, meal logs and nutrition logs together.
DashProfileReturns ==
  \E answer \in {"error", "incomplete", "complete"} :
    /\ loader.component = "Dashboard" /\ loader.first > 0
    /\ loader' =
         IF answer = "complete"
         THEN [loader EXCEPT !.first = @ - 1, !.second = @ + 1]
         ELSE [loader EXCEPT !.first = @ - 1, !.flag = FALSE,
                             !.reported = FALSE]

\* Dashboard: the three requests have answered; an error of any of them is
\* reported, and the finally block lowers the flag.
DashDataReturns ==
  \E ok \in BOOLEAN :
    /\ loader.component = "Dashboard" /\ loader.second > 0
    /\ loader' = [loader EXCEPT !.second = @ - 1, !.flag = FALSE,
                                !.reported = ~ok]

\* submitMealLog up to its await: without a user it throws before the flag is
\* raised; data that fail mealLogSchema are reported and the finally block
\* lowers the flag; valid data are handed to logMeal.
SubmitMealLog ==
  \E user \in {"null", "u1"}, valid \in BOOLEAN :
    /\ loader.component = "useMealLogging"
    /\ loader.runs < MaxCalls
    /\ loader' =
         IF user = "null" THEN [loader EXCEPT !.runs = @ + 1]
         ELSE IF ~valid
         THEN [loader EXCEPT !.runs = @ + 1, !.flag = FALSE, !.reported = TRUE]
         ELSE [loader EXCEPT !.runs = @ + 1, !.calls = @ + 1, !.flag = TRUE,
                             !.first = @ + 1]

\* A faulty variant: the flag is lowered after the call, not in finally.
afterLogMeal_NoFinally(l, ok) ==
  IF ok THEN [l EXCEPT !.first = @ - 1, !.flag = FALSE, !.reported = FALSE]
  ELSE [l EXCEPT !.first = @ - 1, !.reported = TRUE]

\* submitMealLog after its await: an error is reported and thrown again;
\* the finally block lowers the flag.
afterLogMeal(l, ok) ==
  [l EXCEPT !.first = @ - 1, !.flag = FALSE, !.reported = ~ok]

\* logMeal answers.
LogMealReturns ==
  \E ok \in BOOLEAN :
    /\ loader.component = "useMealLogging" /\ loader.first > 0
    /\ loader' = afterLogMeal(loader, ok)

----------------------------------------------------------------------------
(* Remote requests: handleSearch, useRecommendations, RecommendationsPage.  *)

Requesters == {"FoodSearch", "useRecommendations", "RecommendationsPage"}

\* triggers counts the user actions and the mounts or identity changes that
\* ran the handler, requests the remote requests sent, failures the answers
\* that were errors; awaiting is what the handler is waiting for.
InitialRequester ==
  [component |-> "none", user |-> "null", triggers |-> 0, requests |-> 0,
   failures |-> 0, awaiting |-> "nothing", error |-> FALSE]

RequesterInit == requester = InitialRequester

\* The component mounts for a user, or for none.
RequesterMount ==
  \E component \in Requesters, user \in {"null", "u1"} :
    /\ requester.component = "none"
    /\ requester' = [requester EXCEPT !.component = component, !.user = user]

\* FoodSearch: Search is pressed (or Enter).  An empty term clears the
\* results; any other term sends one query.
handleSearch ==
  \E emptyTerm \in BOOLEAN :
    /\ requester.component = "FoodSearch"
    /\ requester.awaiting = "nothing"
    /\ requester.triggers < MaxCalls
    /\ requester' =
         IF emptyTerm THEN [requester EXCEPT !.triggers = @ + 1]
         ELSE [requester EXCEPT !.triggers = @ + 1, !.requests = @ + 1,
                                !.awaiting = "search"]

\* A faulty variant: a failed query is sent again.
afterSearch_Retry(r, ok) ==
  IF ok THEN [r EXCEPT !.awaiting = "nothing", !.error = FALSE]
  ELSE [r EXCEPT !.requests = @ + 1, !.failures = @ + 1, !.error = TRUE]

\* handleSearch after its await: the results are shown, or the error is
\* reported and the results are cleared.
afterSearch(r, ok) ==
  IF ok THEN [r EXCEPT !.awaiting = "nothing", !.error = FALSE]
  ELSE [r EXCEPT !.awaiting = "nothing", !.failures = @ + 1, !.error = TRUE]

\* FoodSearch: the query answers.
SearchReturns ==
  \E ok \in BOOLEAN :
    /\ requester.component = "FoodSearch" /\ requester.awaiting = "search"
    /\ requester' = afterSearch(requester, ok)

\* useRecommendations: fetchRecommendations runs, from the effect (the auth
\* state is ready and there is a user: mount or new user id) or from a
\* caller.  Without a user an error is set; with a user the system and the
\* AI recommendations are requested together.
useRecommendations ==
  /\ requester.component = "useRecommendations"
  /\ requester.awaiting = "nothing"
  /\ requester.triggers < MaxCalls
  /\ requester' =
       IF requester.user = "null"
       THEN [requester EXCEPT !.triggers = @ + 1, !.error = TRUE]
       ELSE [requester EXCEPT !.triggers = @ + 1, !.requests = @ + 2,
                              !.error = FALSE, !.awaiting = "both"]

\* useRecommendations: Promise.all settles; the lists are merged, or the
\* error is reported and the list cleared.
RecommendationsReturn ==
  \E ok \in BOOLEAN :
    /\ requester.component = "useRecommendations" /\ requester.awaiting = "both"
    /\ requester' = [requester EXCEPT !.awaiting = "nothing", !.error = ~ok,
                                      !.failures = IF ok THEN @ ELSE @ + 1]

\* RecommendationsPage: fetchRecommendations runs, from the effect (mount or
\* new user id) or from Retry / Refresh.  Without a user the error is shown;
\* with a user the webhook is called.
fetchRecommendations ==
  /\ requester.component = "RecommendationsPage"
  /\ requester.awaiting = "nothing"
  /\ requester.triggers < MaxCalls
  /\ requester' =
       IF requester.user = "null"
       THEN [requester EXCEPT !.triggers = @ + 1, !.error = TRUE]
       ELSE [requester EXCEPT !.triggers = @ + 1, !.requests = @ + 1,
                              !.error = FALSE, !.awaiting = "webhook"]

\* RecommendationsPage: the webhook answers.  A failure is shown; a success
\* queries the recommendations table.
WebhookReturns ==
  \E ok \in BOOLEAN :
    /\ requester.component = "RecommendationsPage"
    /\ requester.awaiting = "webhook"
    /\ requester' =
         IF ok THEN [requester EXCEPT !.requests = @ + 1, !.awaiting = "select"]
         ELSE [requester EXCEPT !.awaiting = "nothing", !.error = TRUE,
                                !.failures = @ + 1]

\* RecommendationsPage: the query answers; the rows or the error are shown.
SelectReturns ==
  \E ok \in BOOLEAN :
    /\ requester.component = "RecommendationsPage"
    /\ requester.awaiting = "select"
    /\ requester' = [requester EXCEPT !.awaiting = "nothing", !.error = ~ok,
                                      !.failures = IF ok THEN @ ELSE @ + 1]

\* The user of the page changes (sign-in, sign-out).
RequesterUserChanges ==
  \E user \in {"null", "u1"} :
    /\ requester.component # "none" /\ requester.user # user
    /\ requester' = [requester EXCEPT !.user = user]

----------------------------------------------------------------------------
(* BarcodeScanner.                                                          *)

\* Barcodes a camera can decode, and the rows of food_items: barcode "b1" has
\* one row, "b2" has none.
Barcodes == {"b1", "b2"}
food_items == <<[barcode |-> "b1", name |-> "apple"]>>

\* .from('food_items').select('*').eq('barcode', barcode).single(): the row,
\* or the error PGRST116 when the rows are not exactly one.
singleFoodItem(barcode) ==
  LET rows == SelectSeq(food_items, LAMBDA row : row.barcode = barcode)
  IN  IF Len(rows) = 1 THEN [error |-> "none", data |-> rows[1].name]
      ELSE [error |-> "PGRST116", data |-> "null"]

\* Answers of the lookup: what the table holds, or an error of another kind.
LookupAnswers(barcode) ==
  {singleFoodItem(barcode), [error |-> "other", data |-> "null"]}

\* What a lookup did: the toast it showed, whether it called handleError and
\* whether it called onBarcodeScanned.
NoOutcome ==
  [toast |-> "none", status |-> "none", handled |-> FALSE, scanned |-> FALSE]

\* A faulty variant: every error of the lookup is thrown to the catch block.
lookupFoodItem_ThrowAll(answer) ==
  IF answer.error # "none"
  THEN [toast |-> "Failed to look up food item", status |-> "error",
        handled |-> TRUE, scanned |-> FALSE]
  ELSE IF answer.data # "null"
  THEN [toast |-> "Food Found!", status |-> "success", handled |-> FALSE,
        scanned |-> TRUE]
  ELSE NoOutcome

\* lookupFoodItem after its await.
lookupFoodItem(answer) ==
  IF answer.error = "PGRST116"
  THEN [toast |-> "Food Not Found", status |-> "warning", handled |-> FALSE,
        scanned |-> FALSE]
  ELSE IF answer.error # "none"
  THEN [toast |-> "Failed to look up food item", status |-> "error",
        handled |-> TRUE, scanned |-> FALSE]
  ELSE IF answer.data # "null"
  THEN [toast |-> "Food Found!", status |-> "success", handled |-> FALSE,
        scanned |-> TRUE]
  ELSE NoOutcome

\* result is the last barcode decoded; pending are the lookups awaiting
\* their answer; last is the lookup that answered last; the counters count
\* the decodes, the calls of handleError and the calls of onBarcodeScanned.
InitialScanner ==
  [result |-> "", pending |-> {}, decoded |-> 0,
   last |-> [barcode |-> "", answer |-> [error |-> "none", data |-> "null"],
             outcome |-> NoOutcome],
   handleErrorCalls |-> 0, onBarcodeScannedCalls |-> 0]

ScannerInit == scanner = InitialScanner

\* onDecodeResult: the barcode is shown and its lookup starts.
onDecodeResult ==
  \E barcode \in Barcodes :
    /\ scanner.decoded < MaxCalls
    /\ barcode \notin scanner.pending
    /\ scanner' = [scanner EXCEPT !.result = barcode, !.decoded = @ + 1,
                                  !.pending = @ \cup {barcode}]

\* The lookup of a barcode answers.
LookupReturns ==
  \E barcode \in scanner.pending :
    \E answer \in LookupAnswers(barcode) :
      LET outcome == lookupFoodItem(answer)
      IN  scanner' = [scanner EXCEPT
            !.pending = @ \ {barcode},
            !.last = [barcode |-> barcode, answer |-> answer, outcome |-> outcome],
            !.handleErrorCalls = IF outcome.handled THEN @ + 1 ELSE @,
            !.onBarcodeScannedCalls = IF outcome.scanned THEN @ + 1 ELSE @]

----------------------------------------------------------------------------
(* Webhook proxy routes: pages/api/n8n/meal-log, recommendations and        *)
(* onboarding.                                                              *)

Routes == {"meal-log", "recommendations", "onboarding"}
Methods == {"OPTIONS", "GET", "POST"}

\* A JSON body: each field is "absent" (undefined, which JSON.stringify
\* leaves out), the empty string or a value.  meal stands for any field
\* other than the three the routes name.
Absent == "absent"
Bodies ==
  [user_id : {Absent, "u1"}, created_at : {Absent, "", "t0"},
   context : {Absent, "ctx"}, meal : {Absent, "m1"}]

\* The truthiness of a field.
Present(field) == field # Absent /\ field # ""

\* The body each route passes to fetch; ISO_NOW is new Date().toISOString().
ISO_NOW == "now"
forwardedBody(route, body) ==
  IF route = "meal-log" THEN body
  ELSE [user_id |-> body.user_id,
        created_at |-> IF Present(body.created_at) THEN body.created_at
                       ELSE ISO_NOW,
        context |-> IF Present(body.context) THEN body.context
                    ELSE "web/" \o route,
        meal |-> Absent]

\* The engine's response: its status is ok or not, and its body is JSON or
\* not.
EngineResponses == [ok : BOOLEAN, body : {"r1", "r2", "not json"}]

\* What the route sends back for a response of the engine.
relay(route, response) ==
  IF response.body = "not json" /\ (route = "meal-log" \/ response.ok)
  THEN [status |-> 500, body |-> "error"]
  ELSE IF ~response.ok THEN [status |-> 500, body |-> "error"]
  ELSE [status |-> 200, body |-> response.body]

NoBody == [user_id |-> Absent, created_at |-> Absent, context |-> Absent,
           meal |-> Absent]
NoReply == [status |-> 0, body |-> "none"]
InitialProxy ==
  [route |-> "none", pc |-> "idle", received |-> NoBody, forwarded |-> NoBody,
   response |-> [ok |-> FALSE, body |-> "none"], reply |-> NoReply]

ProxyInit == proxy = InitialProxy

\* handler up to its await of fetch: the early returns, then the forward.
\* configured tells whether the webhook URL of the route is set.
ProxyRequest ==
  \E route \in Routes, method \in Methods, body \in Bodies,
     configured \in BOOLEAN :
    /\ proxy.pc # "fetch"
    /\ LET early(status, text) ==
             [InitialProxy EXCEPT !.route = route, !.pc = "replied",
                                  !.received = body,
                                  !.reply = [status |-> status, body |-> text]]
       IN  proxy' =
             IF method = "OPTIONS" THEN early(200, "")
             ELSE IF method # "POST" THEN early(405, "error")
             ELSE IF route = "recommendations" /\ ~configured
             THEN early(500, "error")
             ELSE IF route # "meal-log" /\ ~Present(body.user_id)
             THEN early(400, "error")
             ELSE IF route = "onboarding" /\ ~configured
             THEN early(200, "skipped")
             ELSE IF ~configured THEN early(500, "error")
             ELSE [InitialProxy EXCEPT !.route = route, !.pc = "fetch",
                                       !.received = body,
                                       !.forwarded = forwardedBody(route, body)]

\* handler after its await of fetch: the engine answers, or fetch rejects.
ProxyEngineResponds ==
  /\ proxy.pc = "fetch"
  /\ \/ \E response \in EngineResponses :
          proxy' = [proxy EXCEPT !.pc = "relayed", !.response = response,
                                 !.reply = relay(proxy.route, response)]
     \/ proxy' = [proxy EXCEPT !.pc = "replied",
                               !.reply = [status |-> 500, body |-> "error"]]

----------------------------------------------------------------------------
(* RecommendationCard.                                                      *)

\* The props the card is rendered with.
CardCalorieTargets == {Undefined, Num(0), Num(1000)}
CardRatios ==
  {[target_protein_ratio |-> Undefined, target_carbs_ratio |-> Undefined,
    target_fat_ratio |-> Undefined],
   [target_protein_ratio |-> Num(30), target_carbs_ratio |-> Num(40),
    target_fat_ratio |-> Num(30)]}
CardLogs ==
  {[created_at |-> at, total_calories |-> Num(m[1]), protein |-> Num(m[2]),
    carbs |-> Num(m[3]), fat |-> Num(m[4])] :
     at \in {0, TicksPerDay},
     m \in {<<250, 30, 40, 30>>, <<499, 10, 60, 30>>, <<750, 30, 40, 30>>,
            <<751, 10, 60, 30>>}}
CardProfiles ==
  {[goal_type |-> g, weight_kg |-> w, target_weight |-> t] :
     g \in {"undefined", "lose_weight", "gain_weight"},
     w \in {Num(80)}, t \in {Undefined, Num(70), Num(90)}}

\* todayLogs.reduce(...): the totals of the logs created today.
RECURSIVE cardTotals(_, _)
cardTotals(mealLogs, clock) ==
  IF mealLogs = <<>>
  THEN [calories |-> Num(0), protein |-> Num(0), carbs |-> Num(0),
        fat |-> Num(0)]
  ELSE LET acc == cardTotals(SubSeq(mealLogs, 1, Len(mealLogs) - 1), clock)
           log == mealLogs[Len(mealLogs)]
       IN  IF IsoDate(log.created_at) # IsoDate(clock) THEN acc
           ELSE [calories |-> JsAdd(acc.calories, JsOr(log.total_calories, Num(0))),
                 protein |-> JsAdd(acc.protein, JsOr(log.protein, Num(0))),
                 carbs |-> JsAdd(acc.carbs, JsOr(log.carbs, Num(0))),
                 fat |-> JsAdd(acc.fat, JsOr(log.fat, Num(0)))]

\* A faulty variant: a difference of exactly 500 already gives advice.
calorieAdvice_Inclusive(goals, totals) ==
  IF Truthy(goals.target_calories)
  THEN LET calorieDiff == JsSub(goals.target_calories, totals.calories)
       IN  IF ~JsLess(calorieDiff, Num(500)) THEN <<"under target">>
           ELSE IF ~JsLess(Num(0 - 500), calorieDiff) THEN <<"over target">>
           ELSE <<>>
  ELSE <<>>

\* getRecommendations, "Check calorie intake".
calorieAdvice(goals, totals) ==
  IF Truthy(goals.target_calories)
  THEN LET calorieDiff == JsSub(goals.target_calories, totals.calories)
       IN  IF JsLess(Num(500), calorieDiff) THEN <<"under target">>
           ELSE IF JsLess(calorieDiff, Num(0 - 500)) THEN <<"over target">>
           ELSE <<>>
  ELSE <<>>

\* getRecommendations, "Check macro ratios".
macroAdvice(goals, totals) ==
  IF Truthy(goals.target_protein_ratio) /\ Truthy(goals.target_carbs_ratio)
       /\ Truthy(goals.target_fat_ratio)
  THEN LET totalMacros == JsAdd(JsAdd(totals.protein, totals.carbs), totals.fat)
           ratio(x) == JsMul(JsDiv(x, totalMacros), Num(100))
           below(x, target) == JsLess(ratio(x), JsMul(target, Rat(4, 5)))
       IN  (IF below(totals.protein, goals.target_protein_ratio)
            THEN <<"protein below target">> ELSE <<>>)
           \o (IF below(totals.carbs, goals.target_carbs_ratio)
               THEN <<"carbs below target">> ELSE <<>>)
           \o (IF below(totals.fat, goals.target_fat_ratio)
               THEN <<"fat below target">> ELSE <<>>)
  ELSE <<>>

\* getRecommendations, "Check weight progress".
weightAdvice(profile) ==
  IF profile.goal_type # "undefined" /\ Truthy(profile.weight_kg)
       /\ Truthy(profile.target_weight)
  THEN LET weightDiff == JsSub(profile.target_weight, profile.weight_kg)
       IN  IF profile.goal_type = "lose_weight" /\ JsLess(Num(0), weightDiff)
           THEN <<"away from weight loss goal">>
           ELSE IF profile.goal_type = "gain_weight" /\ JsLess(weightDiff, Num(0))
           THEN <<"away from weight gain goal">>
           ELSE <<>>
  ELSE <<>>

getRecommendations(goals, totals, profile) ==
  LET recommendations ==
        calorieAdvice(goals, totals) \o macroAdvice(goals, totals)
          \o weightAdvice(profile)
  IN  IF Len(recommendations) > 0 THEN recommendations
      ELSE <<"keep tracking">>

\* The card rendered with its props.
RenderCard(profile, goals, mealLogs) ==
  LET totals == cardTotals(mealLogs, now)
  IN  [profile |-> profile, goals |-> goals, mealLogs |-> mealLogs,
       totals |-> totals,
       recommendations |-> getRecommendations(goals, totals, profile)]

CardInit ==
  card = RenderCard([goal_type |-> "undefined", weight_kg |-> Undefined,
                     target_weight |-> Undefined],
                    [target_calories |-> Undefined,
                     target_protein_ratio |-> Undefined,
                     target_carbs_ratio |-> Undefined,
                     target_fat_ratio |-> Undefined], <<>>)

\* The parent passes other goals.
CardSetGoals ==
  \E c \in CardCalorieTargets, r \in CardRatios :
    card' = RenderCard(card.profile,
                       [target_calories |-> c,
                        target_protein_ratio |-> r.target_protein_ratio,
                        target_carbs_ratio |-> r.target_carbs_ratio,
                        target_fat_ratio |-> r.target_fat_ratio],
                       card.mealLogs)

\* The parent passes another profile.
CardSetProfile ==
  \E profile \in CardProfiles :
    card' = RenderCard(profile, card.goals, card.mealLogs)

\* The parent passes one more meal log.
CardAddLog ==
  \E log \in CardLogs :
    /\ Len(card.mealLogs) < MaxLogs
    /\ card' = RenderCard(card.profile, card.goals, Append(card.mealLogs, log))

----------------------------------------------------------------------------
(* SignUpForm.onSubmit, useAuth.signUp and triggerOnboarding.               *)

\* The e-mail addresses typed into the form.
Emails == {"a@x", "b@x"}

\* What supabase.auth.signUp answers: a user, an error, or neither.  An
\* address that already has an account gets the error.
SignUpAnswers(email, accounts) ==
  IF email \in accounts THEN {"error"} ELSE {"user", "error", "no user"}

\* How triggerOnboarding ends: it resolves, or it throws because the route
\* answered with an error status or because fetch was rejected.
OnboardingOutcomes == {"resolves", "throws: not ok", "throws: fetch"}

NoResult == [user |-> "none", error |-> "none"]

\* pc is the position of the submission: "idle", "signUp" (awaiting
\* supabase.auth.signUp), "triggerOnboarding" (awaiting it), "returned"
\* (signUp has returned to onSubmit).  formLoading is the form's flag and
\* isLoading the provider's.  toast, reset and onSuccess tell what the last
\* submission did; handled whether signUp called handleError.
InitialSignUp ==
  [pc |-> "idle", email |-> "none", formLoading |-> FALSE,
   isLoading |-> FALSE, answer |-> "none", onboarding |-> "none", result |-> NoResult,
   toast |-> FALSE, reset |-> FALSE, onSuccess |-> FALSE, handled |-> FALSE,
   submissions |-> 0, accounts |-> {}]

SignUpInit == signup = InitialSignUp

\* onSubmit up to the await inside signUp: both flags are raised.
SignUpSubmit ==
  /\ signup.pc = "idle"
  /\ signup.submissions < MaxCalls
  /\ \E email \in Emails : signup' = [InitialSignUp EXCEPT
       !.pc = "signUp", !.email = email, !.formLoading = TRUE, !.isLoading = TRUE,
       !.submissions = signup.submissions + 1,
       !.accounts = signup.accounts]

\* signUp returns to its caller: the finally block lowers the flag.
signUpReturns(s, user, error) ==
  [s EXCEPT !.pc = "returned", !.isLoading = FALSE,
            !.result = [user |-> user, error |-> error],
            !.handled = (error # "null")]

\* signUp after supabase.auth.signUp has answered.
AuthSignUpReturns ==
  \E answer \in SignUpAnswers(signup.email, signup.accounts) :
    /\ signup.pc = "signUp"
    /\ signup' =
         IF answer = "error"
         THEN signUpReturns([signup EXCEPT !.answer = answer], "null", "error")
         ELSE IF answer = "user"
         THEN [signup EXCEPT !.answer = answer, !.pc = "triggerOnboarding",
                             !.accounts = @ \cup {signup.email}]
         ELSE signUpReturns([signup EXCEPT !.answer = answer], "null", "null")

\* A faulty variant: an onboarding failure fails the sign-up.
afterTriggerOnboarding_Fails(s, outcome) ==
  IF outcome = "resolves" THEN signUpReturns(s, s.email, "null")
  ELSE signUpReturns(s, "null", "error")

\* signUp after triggerOnboarding has ended: its error is only logged.
afterTriggerOnboarding(s, outcome) == signUpReturns(s, s.email, "null")

TriggerOnboardingReturns ==
  \E outcome \in OnboardingOutcomes :
    /\ signup.pc = "triggerOnboarding"
    /\ signup' = afterTriggerOnboarding(
                   [signup EXCEPT !.onboarding = outcome], outcome)

\* onSubmit after `await signUp(signupData)`: signUp has not thrown, so the
\* toast is shown, the form is reset and onSuccess is called; the finally
\* block lowers the form's flag.
SignUpFormResumes ==
  /\ signup.pc = "returned"
  /\ signup' = [signup EXCEPT !.pc = "idle", !.formLoading = FALSE,
                              !.toast = TRUE, !.reset = TRUE,
                              !.onSuccess = TRUE]

----------------------------------------------------------------------------
(* The chat: the dashboard chat widget, services/n8nWebhooks               *)
(* processChatMessage, and the routes pages/api/n8n/chat and                *)
(* save-chat-data.                                                          *)

ChatTableInit == chat_interactions = <<>>

\* .from('chat_interactions').insert([row]): writer names the code that
\* sent the insert, session_id is "none" for rows that have none, and
\* archived is FALSE unless the row was archived.
ChatRow(user, message, is_bot, writer, session_id) ==
  [user_id |-> user, message |-> message, is_bot |-> is_bot,
   writer |-> writer, session_id |-> session_id, archived |-> FALSE]

\* The texts typed into the chat input; trim() makes the first one empty.
ChatInputs == {"  ", "hi", "log lunch"}
trim(text) == IF text = "  " THEN "" ELSE text

\* The reply of pages/api/n8n/chat: its `message` is this fixed text.
RouteReplyMessage == "Message received and processed"

InitialChat ==
  [pc |-> "idle", message |-> "", botResponse |-> "none", isLoading |-> FALSE,
   outcome |-> "none", sent |-> 0, relays |-> 0, chatMessages |-> <<>>]

ChatInit == chat = InitialChat

\* The catch block of DailyOverview.processChatMessage and the finally
\* blocks: the error toast, the flag lowered.
chatFails(c) == [c EXCEPT !.pc = "idle", !.outcome = "error", !.isLoading = FALSE]

\* handleSendMessage and DailyOverview.processChatMessage up to the first
\* insert: an empty text or a missing user returns at once.
handleSendMessage ==
  \E text \in ChatInputs :
    /\ chat.pc = "idle"
    /\ chat.sent < MaxCalls
    /\ trim(text) # ""
    /\ chat' = [chat EXCEPT !.pc = "saveUserMessage", !.message = trim(text),
                            !.botResponse = "none", !.isLoading = TRUE,
                            !.outcome = "none", !.sent = @ + 1]
    /\ UNCHANGED chat_interactions

\* DailyOverview.processChatMessage: the insert of the user's message
\* answers; then the service is called.
ChatSaveUserMessage ==
  /\ chat.pc = "saveUserMessage"
  /\ \/ chat' = chatFails(chat) /\ UNCHANGED chat_interactions
     \/ /\ chat_interactions' = Append(chat_interactions,
             ChatRow(Me, chat.message, "undefined", "DailyOverview", "none"))
        /\ chat' = [chat EXCEPT !.pc = "serviceInsert"]

\* services processChatMessage: its own insert of the message answers; then
\* the text is posted to /api/n8n/chat.
ServiceSaveInteraction ==
  /\ chat.pc = "serviceInsert"
  /\ \/ chat' = chatFails(chat) /\ UNCHANGED chat_interactions
     \/ /\ chat_interactions' = Append(chat_interactions,
             ChatRow(Me, chat.message, "undefined", "n8nWebhooks", "none"))
        /\ chat' = [chat EXCEPT !.pc = "fetch", !.relays = @ + 1]

\* pages/api/n8n/chat handles the request: it inserts the message and
\* answers with its fixed reply; a failed insert or a rejected fetch makes
\* the service throw.  Then the widget sends the insert of the reply.
ChatRouteAnswers ==
  /\ chat.pc = "fetch"
  /\ \/ chat' = chatFails(chat) /\ UNCHANGED chat_interactions
     \/ /\ chat_interactions' = Append(chat_interactions,
             ChatRow(Me, chat.message, "false", "api/n8n/chat", "none"))
        /\ chat' = [chat EXCEPT !.pc = "saveBotResponse",
                                !.botResponse = RouteReplyMessage]

\* DailyOverview.processChatMessage: the insert of the bot's reply answers;
\* the two messages are appended to the list shown.
ChatSaveBotResponse ==
  /\ chat.pc = "saveBotResponse"
  /\ \/ chat' = chatFails(chat) /\ UNCHANGED chat_interactions
     \/ /\ chat_interactions' = Append(chat_interactions,
             ChatRow(Me, chat.botResponse, "undefined", "DailyOverview", "none"))
        /\ chat' = [chat EXCEPT !.pc = "idle", !.outcome = "done",
                                !.isLoading = FALSE,
                                !.chatMessages = @ \o <<chat.message, chat.botResponse>>]

\* The save-chat-data requests the server can be handling at once.
Requests == {1, 2}

\* pc is the position of the handler: "idle", "archive" (awaiting the
\* update), "insert" (awaiting the insert) or "done"; status is the HTTP
\* status answered and session_id the id the handler generated.  started
\* counts the requests received, and latest is the last request answered
\* with 200.
InitialSaves ==
  [handler |-> [r \in Requests |-> [pc |-> "idle", status |-> 0,
                                    session_id |-> "none"]],
   started |-> 0, latest |-> 0]

SavesInit == saves = InitialSaves

saveAnswers(r, status) ==
  [saves EXCEPT !.handler[r].pc = "done", !.handler[r].status = status]

\* .update({ archived: true }).eq('user_id', userId).eq('archived', false)
archiveRows(table, user) ==
  [i \in 1..Len(table) |->
     IF table[i].user_id = user THEN [table[i] EXCEPT !.archived = TRUE]
     ELSE table[i]]

\* handler up to its first await: the method and the required fields are
\* checked, then the update that archives is sent.
SaveChatRequest(r) ==
  \E method \in {"GET", "POST"}, complete \in BOOLEAN :
    /\ saves.handler[r].pc \in {"idle", "done"}
    /\ saves.started < MaxCalls
    /\ saves' =
         [(IF method # "POST" THEN saveAnswers(r, 405)
           ELSE IF ~complete THEN saveAnswers(r, 400)
           ELSE [saves EXCEPT !.handler[r] =
                   [pc |-> "archive", status |-> 0, session_id |-> "none"]])
          EXCEPT !.started = saves.started + 1]
    /\ UNCHANGED chat_interactions

\* handler after the update: an error answers 500; otherwise the two rows
\* are prepared with the session id read from the clock (here the number of
\* requests received so far) and the insert is sent.
SaveChatArchived(r) ==
  /\ saves.handler[r].pc = "archive"
  /\ \/ saves' = saveAnswers(r, 500) /\ UNCHANGED chat_interactions
     \/ /\ chat_interactions' = archiveRows(chat_interactions, Me)
        /\ saves' = [saves EXCEPT !.handler[r].pc = "insert",
                                  !.handler[r].session_id = saves.started]

\* handler after the insert: an error answers 500; otherwise the rows are
\* stored and the answer is 200.
SaveChatInserted(r) ==
  /\ saves.handler[r].pc = "insert"
  /\ \/ saves' = saveAnswers(r, 500) /\ UNCHANGED chat_interactions
     \/ /\ chat_interactions' = chat_interactions \o
             <<ChatRow(Me, "user message", "false", r,
                       saves.handler[r].session_id),
               ChatRow(Me, "bot message", "true", r,
                       saves.handler[r].session_id)>>
        /\ saves' = [saveAnswers(r, 200) EXCEPT !.latest = r]

----------------------------------------------------------------------------
(* OnboardingFlow.                                                          *)

\* The inputs rendered at each step of the wizard.
renderedFields(step) ==
  IF step = 1
  THEN {"full_name", "age", "gender", "profession", "work_hours", "height_cm",
        "weight_kg", "activity_level"}
  ELSE IF step = 2
  THEN {"dietary_restrictions", "allergies", "custom_allergies",
        "medical_conditions", "preferred_meal_times", "fitness_level",
        "preferred_workout_days"}
  ELSE {"goal_type", "target_weight", "target_date", "weekly_workout_goal",
        "water_intake_goal", "sleep_goal", "meal_prep_preference"}

\* validateCurrentStep: the fields passed to trigger() at each step.
currentStepFields(step) ==
  IF step = 1
  THEN {"full_name", "age", "gender", "height_cm", "weight_kg",
        "activity_level"}
  ELSE IF step = 2
  THEN {"dietary_restrictions", "allergies", "medical_conditions",
        "preferred_meal_times", "fitness_level", "preferred_workout_days"}
  ELSE {"goal_type", "target_weight", "target_date", "weekly_workout_goal",
        "water_intake_goal", "sleep_goal", "meal_prep_preference"}

\* The fields onboardingSchema has a rule for that a value can break; the
\* refinement reports on target_weight.  target_date and
\* preferred_meal_times take any string.
rejectableFields ==
  {"full_name", "age", "gender", "profession", "work_hours", "height_cm",
   "weight_kg", "activity_level", "dietary_restrictions", "allergies",
   "custom_allergies", "medical_conditions", "fitness_level",
   "preferred_workout_days", "goal_type", "target_weight",
   "weekly_workout_goal", "water_intake_goal", "sleep_goal",
   "meal_prep_preference"}

\* The form is the set of fields whose value the schema rejects.  With the
\* defaultValues these are the required fields: the strings, numbers and
\* enums that are undefined and the arrays that need one element.
defaultInvalid ==
  {"full_name", "age", "gender", "profession", "work_hours", "height_cm",
   "weight_kg", "activity_level", "dietary_restrictions",
   "medical_conditions", "fitness_level", "preferred_workout_days",
   "goal_type"}

\* zodResolver(onboardingSchema) on the whole form.
onboardingSchema(invalid) == invalid = {}

\* trigger(fieldsToValidate)
validateCurrentStep(step, invalid) == invalid \cap currentStepFields(step) = {}

\* localStorage keeps strings: step.toString() and parseInt(savedStep, 10);
\* getItem gives null for an item that is not there.
NoItem == "null"
toString(step) == IF step = 1 THEN "1" ELSE IF step = 2 THEN "2" ELSE "3"
parseInt(text) == IF text = "1" THEN 1 ELSE IF text = "2" THEN 2 ELSE 3
InitialWizard ==
  [mounted |-> FALSE, step |-> 1, invalid |-> defaultInvalid,
   onboardingStep |-> NoItem, outcome |-> "none", mounts |-> 0]

WizardInit == wizard = InitialWizard

\* The effects of a mount, in the order of their declaration: the save
\* effect stores the initial step, then the restore effect reads the item
\* and sets the step, which the save effect stores again.
mountEffects(step, onboardingStep) ==
  LET savedStep == toString(step)
      restored == IF savedStep # NoItem THEN parseInt(savedStep) ELSE step
  IN  [step |-> restored, onboardingStep |-> toString(restored)]

\* The component mounts: useState(1), then the effects.  The form data come
\* back from localStorage.
WizardMount ==
  /\ ~wizard.mounted
  /\ wizard.mounts < MaxCalls
  /\ LET after == mountEffects(1, wizard.onboardingStep)
     IN  wizard' = [wizard EXCEPT !.mounted = TRUE, !.step = after.step,
                                  !.onboardingStep = after.onboardingStep,
                                  !.outcome = "none", !.mounts = @ + 1]

\* The user leaves the page.
WizardUnmount ==
  /\ wizard.mounted
  /\ wizard' = [wizard EXCEPT !.mounted = FALSE]

\* The user fills the inputs of the step shown, all of them with values the
\* schema accepts but for at most one.
WizardFill ==
  \E wrong \in SUBSET (renderedFields(wizard.step) \cap rejectableFields) :
    /\ wizard.mounted
    /\ Cardinality(wrong) <= 1
    /\ wizard' = [wizard EXCEPT
         !.invalid = (@ \ renderedFields(wizard.step)) \cup wrong]

\* handleNextStep; the save effect stores the new step.
handleNextStep ==
  /\ wizard.mounted /\ wizard.step < 3
  /\ wizard' =
       IF validateCurrentStep(wizard.step, wizard.invalid)
       THEN [wizard EXCEPT !.step = @ + 1, !.onboardingStep = toString(wizard.step + 1),
                           !.outcome = "none"]
       ELSE [wizard EXCEPT !.outcome = "step invalid"]

\* The Previous button: setStep(step - 1).
WizardPrevious ==
  /\ wizard.mounted /\ wizard.step > 1
  /\ wizard' = [wizard EXCEPT !.step = @ - 1, !.onboardingStep = toString(wizard.step - 1),
                              !.outcome = "none"]

\* The submit button of step 3: handleSubmit runs the resolver and calls
\* onSubmit only for a form the schema accepts; onSubmit upserts the
\* profile, and on success clears the items and resets the form.
WizardSubmit ==
  /\ wizard.mounted /\ wizard.step = 3
  /\ \/ /\ ~onboardingSchema(wizard.invalid)
        /\ wizard' = [wizard EXCEPT !.outcome = "rejected"]
     \/ /\ onboardingSchema(wizard.invalid)
        /\ \/ wizard' = [wizard EXCEPT !.outcome = "error"]
           \/ wizard' = [wizard EXCEPT !.outcome = "saved",
                                       !.onboardingStep = NoItem,
                                       !.invalid = defaultInvalid]

----------------------------------------------------------------------------
(* The time zone of the device.                                             *)

\* The offsets a device can have: UTC, half a day west and half a day east.
Offsets == {0 - 1, 0, 1}

ZoneInit == tz = 0

\* The device moves to another time zone.
SetTimeZone ==
  \E offset \in Offsets :
    /\ offset # tz
    /\ tz' = offset

----------------------------------------------------------------------------
(* FoodSearch with several queries in flight.                               *)

\* The terms typed into the search input; the first is empty after trim().
SearchTerms == {"", "app", "bre"}

\* searchResults is the query whose rows are shown (id 0: the empty list);
\* inflight are the queries sent and not answered; issued counts them.
NoResults == [id |-> 0, term |-> ""]
InitialSearch ==
  [searchTerm |-> "", inflight |-> {}, issued |-> 0,
   searchResults |-> NoResults, isLoading |-> FALSE, failures |-> 0]

SearchInit == search = InitialSearch

\* onChange of the input: setSearchTerm.
setSearchTerm ==
  \E term \in SearchTerms :
    /\ term # search.searchTerm
    /\ search' = [search EXCEPT !.searchTerm = term]

\* handleSearch up to its await, from the Search button, the icon button or
\* the Enter key; nothing keeps it from running while a query is in flight.
FoodSearchStarts ==
  /\ search.issued < MaxCalls
  /\ search' =
       IF search.searchTerm = ""
       THEN [search EXCEPT !.searchResults = NoResults]
       ELSE [search EXCEPT
               !.isLoading = TRUE, !.searchResults = NoResults,
               !.issued = @ + 1,
               !.inflight = @ \cup {[id |-> search.issued + 1,
                                     term |-> search.searchTerm]}]

\* handleSearch after its await, for any query in flight: its rows are
\* shown, or the error is reported and the list cleared; the flag is lowered.
FoodSearchReturns ==
  \E query \in search.inflight, ok \in BOOLEAN :
    search' = [search EXCEPT
      !.inflight = @ \ {query},
      !.searchResults = IF ok THEN query ELSE NoResults,
      !.failures = IF ok THEN @ ELSE @ + 1,
      !.isLoading = FALSE]

----------------------------------------------------------------------------
(* Dashboard: the fetch effect and generateRecommendations.                 *)

\* The answers of the weight_logs query, newest first.
WeightHistories == {<<>>, <<Num(70)>>, <<Num(80), Num(70)>>, <<Num(70), Num(80)>>}

\* a < b, false when either is NaN.
Below(a, b) == ~IsNaN(a) /\ ~IsNaN(b) /\ JsLess(a, b)

\* generateRecommendations over the state of the render that called it.
generateRecommendations(nutritionData, goals, weightHistory) ==
  LET caloriePercentage ==
        JsMul(JsDiv(nutritionData.calories, goals.calories), Num(100))
      previousWeight == IF Len(weightHistory) > 1 THEN weightHistory[2]
                        ELSE Undefined
  IN  (IF Below(caloriePercentage, Num(80)) THEN <<"below calorie goal">>
       ELSE IF Below(Num(120), caloriePercentage) THEN <<"above calorie goal">>
       ELSE <<>>)
      \o (IF Len(weightHistory) > 0 /\ Truthy(previousWeight)
               /\ Below(previousWeight, weightHistory[1])
          THEN <<"weight has increased">> ELSE <<>>)

\* effectRan: the effect on user?.id has run; weightPending: the
\* weight_logs query has not answered.
InitialAdvice ==
  [effectRan |-> FALSE, weightPending |-> FALSE, weightFetched |-> FALSE,
   weightHistory |-> <<>>, recommendations |-> <<>>]

AdviceInit == advice = InitialAdvice

\* The effect: fetchUserData() and fetchWeightHistory() are started and not
\* awaited, then generateRecommendations() runs on the state of this render.
DashboardEffect ==
  /\ ~advice.effectRan /\ dash.pc = "idle" /\ ~dash.fetched
  /\ advice' = [advice EXCEPT
       !.effectRan = TRUE, !.weightPending = TRUE,
       !.recommendations =
          generateRecommendations(dash.nutritionData, dash.goals,
                                  advice.weightHistory)]

\* fetchWeightHistory after its await: the rows, or none after an error.
WeightHistoryReturns ==
  \E rows \in WeightHistories :
    /\ advice.weightPending
    /\ advice' = [advice EXCEPT !.weightPending = FALSE,
                                !.weightFetched = TRUE,
                                !.weightHistory = rows]

----------------------------------------------------------------------------
(* Specifications.                                                          *)

vars == <<now, tracker, overview, meal_logs, user_goals, dash,
          meal_food_items, logger, tabs, user_preferences, user_profiles,
          auth, supa, widget, channels, loader, requester, scanner, proxy,
          card,
   signup,
   chat_interactions,
   chat,
   saves,
   wizard,
   tz,
   search,
   advice>>

DbInit ==
  /\ meal_logs = <<>> /\ user_goals = <<>> /\ meal_food_items = <<>>
  /\ user_preferences = <<>> /\ user_profiles = <<>>

Init ==
  /\ now = 0 /\ TrackerInit /\ OverviewInit /\ DbInit /\ DashInit
  /\ LoggerInit /\ TabsInit /\ AuthInit /\ WidgetInit
  /\ LoaderInit /\ RequesterInit /\ ScannerInit /\ ProxyInit /\ CardInit /\ SignUpInit /\ ChatTableInit /\ ChatInit /\ SavesInit /\ WizardInit /\ ZoneInit /\ SearchInit /\ AdviceInit

sessionVars ==
  <<auth, supa, widget, channels, loader, requester, scanner, proxy, card,
   signup,
   chat_interactions,
   chat,
   saves,
   wizard,
   tz,
   search,
   advice>>
settingsVars == <<tabs, user_preferences, user_profiles, sessionVars>>
mealVars == <<meal_food_items, logger, settingsVars>>
dashVars == <<meal_logs, user_goals, dash, mealVars>>

\* ProgressTracker under changing props.
SpecTrackerNext ==
  \/ TrackerSetProfile /\ UNCHANGED <<overview, dashVars>>
  \/ TrackerSetGoals /\ UNCHANGED <<overview, dashVars>>
  \/ TrackerAddLog /\ UNCHANGED <<overview, dashVars>>
  \/ Tick /\ UNCHANGED <<tracker, overview, dashVars>>
SpecTracker == Init /\ [][SpecTrackerNext]_vars

\* DailyOverview under changing props and goals.
SpecOverviewNext ==
  \/ OverviewSetData /\ UNCHANGED <<tracker, dashVars>>
  \/ OverviewSetGoals /\ UNCHANGED <<tracker, dashVars>>
  \/ OverviewAddLog /\ UNCHANGED <<tracker, dashVars>>
  \/ OverviewRerender /\ UNCHANGED <<tracker, dashVars>>
  \/ Tick /\ UNCHANGED <<tracker, overview, dashVars>>
SpecOverview == Init /\ [][SpecOverviewNext]_vars

\* Dashboard fetching the signed-in user's meals and goals.
SpecDashboardNext ==
  \/ DbInsertMeal /\ UNCHANGED <<tracker, overview, dash, mealVars>>
  \/ DbSaveGoals /\ UNCHANGED <<tracker, overview, dash, mealVars>>
  \/ DashFetchMeals /\ UNCHANGED <<tracker, overview, mealVars>>
  \/ DashFetchGoals /\ UNCHANGED <<tracker, overview, mealVars>>
  \/ Tick /\ UNCHANGED <<tracker, overview, dashVars>>
SpecDashboard == Init /\ [][SpecDashboardNext]_vars

\* The two daily aggregators, DailyOverview's and Dashboard's.  They share no
\* state, so a behaviour exercises one of them and leaves the other as
\* mounted.
OverviewUntouched == overview = InitialOverview
DashUntouched == meal_logs = <<>> /\ user_goals = <<>> /\ dash = InitialDash
SpecAggregateNext ==
  \/ DashUntouched /\ OverviewSetData /\ UNCHANGED <<tracker, dashVars>>
  \/ DashUntouched /\ OverviewAddLog /\ UNCHANGED <<tracker, dashVars>>
  \/ DashUntouched /\ OverviewRerender /\ UNCHANGED <<tracker, dashVars>>
  \/ OverviewUntouched /\ DbInsertMeal /\ UNCHANGED <<tracker, overview, dash, mealVars>>
  \/ OverviewUntouched /\ DashFetchMeals /\ UNCHANGED <<tracker, overview, mealVars>>
  \/ OverviewUntouched /\ DashFetchGoals /\ UNCHANGED <<tracker, overview, mealVars>>
  \/ Tick /\ UNCHANGED <<tracker, overview, dashVars>>
SpecAggregate == Init /\ [][SpecAggregateNext]_vars

\* MealLogger filling its form and submitting meals.
SpecMealNext ==
  \/ LoggerAddFoodItem /\ UNCHANGED <<tracker, overview, user_goals, dash, settingsVars>>
  \/ LoggerSetQuantity /\ UNCHANGED <<tracker, overview, user_goals, dash, settingsVars>>
  \/ LoggerRemoveItem /\ UNCHANGED <<tracker, overview, user_goals, dash, settingsVars>>
  \/ LoggerSubmit /\ UNCHANGED <<tracker, overview, user_goals, dash, settingsVars>>
  \/ LoggerInsertMealLog /\ UNCHANGED <<tracker, overview, user_goals, dash, settingsVars>>
  \/ LoggerInsertFoodItems /\ UNCHANGED <<tracker, overview, user_goals, dash, settingsVars>>
SpecMeal == Init /\ [][SpecMealNext]_vars

\* Two tabs of one user saving goals, preferences and profile.
settingsRest ==
  <<tracker, overview, meal_logs, dash, meal_food_items, logger, sessionVars>>
SpecGoalsNext ==
  \/ \E t \in Tabs : TabOpen(t) /\ UNCHANGED settingsRest
  \/ \E t \in Tabs : GoalsLoaded(t) /\ UNCHANGED settingsRest
  \/ \E t \in Tabs : GoalsEdit(t) /\ UNCHANGED settingsRest
  \/ \E t \in Tabs : GoalsSubmit(t) /\ UNCHANGED settingsRest
  \/ \E t \in Tabs : GoalsSelect(t) /\ UNCHANGED settingsRest
  \/ \E t \in Tabs : GoalsInsert(t) /\ UNCHANGED settingsRest
  \/ \E t \in Tabs : GoalsUpdate(t) /\ UNCHANGED settingsRest
  \/ \E t \in Tabs : GoalsRequestFails(t) /\ UNCHANGED settingsRest
  \/ \E t \in Tabs : SettingsSubmit(t) /\ UNCHANGED settingsRest
  \/ \E t \in Tabs : SettingsUpsert(t) /\ UNCHANGED settingsRest
SpecGoals == Init /\ [][SpecGoalsNext]_vars

\* Everything but AuthProvider and the auth client.
coreVars == <<now, tracker, overview, meal_logs, user_goals, dash,
              meal_food_items, logger, tabs, user_preferences, user_profiles>>
laterVars == <<scanner, proxy, card,
   signup,
   chat_interactions,
   chat,
   saves,
   wizard,
   tz,
   search,
   advice>>
authRest == <<coreVars, widget, channels, loader, requester, laterVars>>
subscriptionsRest == <<coreVars, loader, requester, laterVars>>
loaderRest == <<coreVars, auth, supa, widget, channels, requester, laterVars>>
requesterRest == <<coreVars, auth, supa, widget, channels, loader, laterVars>>
scannerRest ==
  <<coreVars, auth, supa, widget, channels, loader, requester, proxy, card,
   signup,
   chat_interactions,
   chat,
   saves,
   wizard,
   tz,
   search,
   advice>>
proxyRest ==
  <<coreVars, auth, supa, widget, channels, loader, requester, scanner, card,
   signup,
   chat_interactions,
   chat,
   saves,
   wizard,
   tz,
   search,
   advice>>
cardRest ==
  <<coreVars, auth, supa, widget, channels, loader, requester, scanner, proxy,
   signup,
   chat_interactions,
   chat,
   saves,
   wizard,
   tz,
   search,
   advice>>
signupRest ==
  <<coreVars, auth, supa, widget, channels, loader, requester, scanner, proxy, card,
   chat_interactions,
   chat,
   saves,
   wizard,
   tz,
   search,
   advice>>
chatRest ==
  <<coreVars, auth, supa, widget, channels, loader, requester, scanner, proxy,
    card, signup,
   saves,
   wizard,
   tz,
   search,
   advice>>

\* AuthProvider from its mount on, with sign-ins, sign-outs and session
\* changes of the client.
SpecAuthNext ==
  \/ AuthMount /\ UNCHANGED authRest
  \/ AuthEffectRerun /\ UNCHANGED authRest
  \/ AuthUnmount /\ UNCHANGED authRest
  \/ getInitialSession /\ UNCHANGED authRest
  \/ onAuthStateChange /\ UNCHANGED authRest
  \/ SessionChanges /\ UNCHANGED authRest
  \/ AuthOpStarts /\ UNCHANGED authRest
  \/ AuthOpReturns /\ UNCHANGED authRest
SpecAuth == Init /\ [][SpecAuthNext]_vars

\* The components that subscribe in an effect: AuthProvider and, under it,
\* DailyOverview or GoalSetting.
SpecSubscriptionsNext ==
  \/ AuthMount /\ UNCHANGED authRest
  \/ AuthEffectRerun /\ UNCHANGED authRest
  \/ AuthUnmount /\ UNCHANGED authRest
  \/ getInitialSession /\ UNCHANGED authRest
  \/ onAuthStateChange /\ UNCHANGED authRest
  \/ SessionChanges /\ UNCHANGED authRest
  \/ WidgetMount /\ UNCHANGED subscriptionsRest
  \/ WidgetEffectRerun /\ UNCHANGED subscriptionsRest
  \/ WidgetUnmount /\ UNCHANGED subscriptionsRest
  \/ WidgetFetchReturns /\ UNCHANGED subscriptionsRest
SpecSubscriptions == Init /\ [][SpecSubscriptionsNext]_vars

\* BarcodeScanner decoding barcodes and looking them up.
SpecScannerNext ==
  \/ onDecodeResult /\ UNCHANGED scannerRest
  \/ LookupReturns /\ UNCHANGED scannerRest
SpecScanner == Init /\ [][SpecScannerNext]_vars

\* The webhook proxy routes handling one request after another.
SpecProxyNext ==
  \/ ProxyRequest /\ UNCHANGED proxyRest
  \/ ProxyEngineResponds /\ UNCHANGED proxyRest
SpecProxy == Init /\ [][SpecProxyNext]_vars

\* RecommendationCard rendered again whenever one of its props changes.
SpecCardNext ==
  \/ CardSetGoals /\ UNCHANGED cardRest
  \/ CardSetProfile /\ UNCHANGED cardRest
  \/ CardAddLog /\ UNCHANGED cardRest
SpecCard == Init /\ [][SpecCardNext]_vars

\* One sign-up form submitted again and again.
SpecSignUpNext ==
  \/ SignUpSubmit /\ UNCHANGED signupRest
  \/ AuthSignUpReturns /\ UNCHANGED signupRest
  \/ TriggerOnboardingReturns /\ UNCHANGED signupRest
  \/ SignUpFormResumes /\ UNCHANGED signupRest
SpecSignUp == Init /\ [][SpecSignUpNext]_vars

\* The chat widget sending one message after another.
SpecChatNext ==
  \/ handleSendMessage /\ UNCHANGED chatRest
  \/ ChatSaveUserMessage /\ UNCHANGED chatRest
  \/ ServiceSaveInteraction /\ UNCHANGED chatRest
  \/ ChatRouteAnswers /\ UNCHANGED chatRest
  \/ ChatSaveBotResponse /\ UNCHANGED chatRest
SpecChat == Init /\ [][SpecChatNext]_vars

\* The save-chat-data route handling requests, two at a time at most.
savesRest ==
  <<coreVars, auth, supa, widget, channels, loader, requester, scanner, proxy,
    card, signup, chat,
   wizard,
   tz,
   search,
   advice>>
wizardRest ==
  <<coreVars, auth, supa, widget, channels, loader, requester, scanner, proxy, card, signup, chat_interactions, chat, saves,
   tz,
   search,
   advice>>
tzRest ==
  <<coreVars, auth, supa, widget, channels, loader, requester, scanner, proxy, card, signup, chat_interactions, chat, saves, wizard,
   search,
   advice>>
searchRest ==
  <<coreVars, auth, supa, widget, channels, loader, requester, scanner, proxy, card, signup, chat_interactions, chat, saves, wizard, tz,
   advice>>
adviceRest ==
  <<coreVars, auth, supa, widget, channels, loader, requester, scanner, proxy, card, signup, chat_interactions, chat, saves, wizard, tz, search>>
SpecSavesNext ==
  \/ \E r \in Requests : SaveChatRequest(r) /\ UNCHANGED savesRest
  \/ \E r \in Requests : SaveChatArchived(r) /\ UNCHANGED savesRest
  \/ \E r \in Requests : SaveChatInserted(r) /\ UNCHANGED savesRest
SpecSaves == Init /\ [][SpecSavesNext]_vars

\* The onboarding wizard filled, walked through, left and opened again.
SpecWizardNext ==
  \/ WizardMount /\ UNCHANGED wizardRest
  \/ WizardUnmount /\ UNCHANGED wizardRest
  \/ WizardFill /\ UNCHANGED wizardRest
  \/ handleNextStep /\ UNCHANGED wizardRest
  \/ WizardPrevious /\ UNCHANGED wizardRest
  \/ WizardSubmit /\ UNCHANGED wizardRest
SpecWizard == Init /\ [][SpecWizardNext]_vars

\* Meals logged and the dashboard loaded while the clock runs, on a device
\* in any time zone.  The form holds one food at most.
ZonesEmptyForm == logger.food_items = <<>>
SpecZonesNext ==
  \/ SetTimeZone /\ UNCHANGED tzRest
  \/ Tick /\ UNCHANGED <<tracker, overview, dashVars>>
  \/ ZonesEmptyForm /\ LoggerAddFoodItem /\ UNCHANGED <<tracker, overview, user_goals, dash, settingsVars>>
  \/ LoggerSubmit /\ UNCHANGED <<tracker, overview, user_goals, dash, settingsVars>>
  \/ LoggerInsertMealLog /\ UNCHANGED <<tracker, overview, user_goals, dash, settingsVars>>
  \/ LoggerInsertFoodItems /\ UNCHANGED <<tracker, overview, user_goals, dash, settingsVars>>
  \/ DashFetchMeals /\ UNCHANGED <<tracker, overview, mealVars>>
  \/ DashFetchGoals /\ UNCHANGED <<tracker, overview, mealVars>>
SpecZones == Init /\ [][SpecZonesNext]_vars

\* FoodSearch with searches started while others are in flight.
SpecSearchNext ==
  \/ setSearchTerm /\ UNCHANGED searchRest
  \/ FoodSearchStarts /\ UNCHANGED searchRest
  \/ FoodSearchReturns /\ UNCHANGED searchRest
SpecSearch == Init /\ [][SpecSearchNext]_vars

\* The dashboard of a user with meals and goals: its effect runs, then its
\* fetches answer.
SpecAdviceNext ==
  \/ ~advice.effectRan /\ DbInsertMeal /\ UNCHANGED <<tracker, overview, dash, mealVars>>
  \/ ~advice.effectRan /\ DbSaveGoals /\ UNCHANGED <<tracker, overview, dash, mealVars>>
  \/ DashboardEffect /\ UNCHANGED adviceRest
  \/ WeightHistoryReturns /\ UNCHANGED adviceRest
  \/ advice.effectRan /\ DashFetchMeals /\ UNCHANGED <<tracker, overview, mealVars>>
  \/ advice.effectRan /\ DashFetchGoals /\ UNCHANGED <<tracker, overview, mealVars>>
SpecAdvice == Init /\ [][SpecAdviceNext]_vars

\* The components that send remote requests.
SpecRequestsNext ==
  \/ RequesterMount /\ UNCHANGED requesterRest
  \/ handleSearch /\ UNCHANGED requesterRest
  \/ SearchReturns /\ UNCHANGED requesterRest
  \/ useRecommendations /\ UNCHANGED requesterRest
  \/ RecommendationsReturn /\ UNCHANGED requesterRest
  \/ fetchRecommendations /\ UNCHANGED requesterRest
  \/ WebhookReturns /\ UNCHANGED requesterRest
  \/ SelectReturns /\ UNCHANGED requesterRest
  \/ RequesterUserChanges /\ UNCHANGED requesterRest
SpecRequests == Init /\ [][SpecRequestsNext]_vars

\* The components with a loading flag.
SpecLoadingNext ==
  \/ LoaderMount /\ UNCHANGED loaderRest
  \/ AppCheckOnboarding /\ UNCHANGED loaderRest
  \/ AppProfileReturns /\ UNCHANGED loaderRest
  \/ DashCheckOnboarding /\ UNCHANGED loaderRest
  \/ DashProfileReturns /\ UNCHANGED loaderRest
  \/ DashDataReturns /\ UNCHANGED loaderRest
  \/ SubmitMealLog /\ UNCHANGED loaderRest
  \/ LogMealReturns /\ UNCHANGED loaderRest
SpecLoading == Init /\ [][SpecLoadingNext]_vars

\* Every remote call answers.
FairSpecLoading ==
  /\ SpecLoading
  /\ WF_vars(AppProfileReturns /\ UNCHANGED loaderRest)
  /\ WF_vars(DashProfileReturns /\ UNCHANGED loaderRest)
  /\ WF_vars(DashDataReturns /\ UNCHANGED loaderRest)
  /\ WF_vars(LogMealReturns /\ UNCHANGED loaderRest)

\* Every getSession call is answered, every event is delivered and a changed
\* dependency runs the effect again.
FairSpecAuth ==
  /\ SpecAuth
  /\ WF_vars(getInitialSession /\ UNCHANGED authRest)
  /\ WF_vars(onAuthStateChange /\ UNCHANGED authRest)
  /\ WF_vars(AuthEffectRerun /\ UNCHANGED authRest)

----------------------------------------------------------------------------
(* Claims about the daily totals.                                           *)

\* The integer a stored value contributes to a sum: itself, or 0 when the
\* column is missing.
IntOf(x) == IF IsNum(x) THEN x.n ELSE 0

\* The sum of Val over the rows of list that satisfy Match, as an integer.
SumWhere(list, Val(_), Match(_)) ==
  LET sum[i \in 0..Len(list)] ==
        IF i = 0 THEN 0
        ELSE sum[i - 1] + (IF Match(list[i]) THEN Val(list[i]) ELSE 0)
  IN  sum[Len(list)]

\* What DailyOverview must show for reference date `date`.
ExpectedOverviewTotals(logs, date) ==
  LET On(log) == IsoDate(log.created_at) = date
      Cal(log) == IntOf(log.total_calories)
      Pro(log) == IntOf(log.protein)
      Car(log) == IntOf(log.carbs)
      Fat(log) == IntOf(log.fat)
  IN  [calories |-> Num(SumWhere(logs, Cal, On)),
       protein  |-> Num(SumWhere(logs, Pro, On)),
       carbs    |-> Num(SumWhere(logs, Car, On)),
       fat      |-> Num(SumWhere(logs, Fat, On))]

\* What Dashboard must show for the signed-in user and reference date `date`.
ExpectedDashboardTotals(table, date) ==
  LET On(row) == row.user_id = Me /\ row.meal_date = date
      Cal(row) == IntOf(row.total_calories)
      Pro(row) == IntOf(row.total_protein)
      Car(row) == IntOf(row.total_carbs)
      Fat(row) == IntOf(row.total_fat)
  IN  [calories |-> Num(SumWhere(table, Cal, On)),
       protein  |-> Num(SumWhere(table, Pro, On)),
       carbs    |-> Num(SumWhere(table, Car, On)),
       fat      |-> Num(SumWhere(table, Fat, On))]

\* The row of the spec's example: 500 kcal, 30 g protein, 50 g carbs, 20 g fat.
IsExampleLog(log) ==
  /\ log.total_calories = Num(500) /\ log.protein = Num(30)
  /\ log.carbs = Num(50) /\ log.fat = Num(20)

\* C1: the daily aggregator returns, per field, the sum over exactly the rows
\* whose calendar date is the reference date, and zeros when no row matches;
\* the single example row gives {500, 30, 50, 20} on its own date and
\* {0, 0, 0, 0} on any other.  DailyOverview is read while it has data, and
\* Dashboard while no later insert has outdated its last fetch.
C1_DailyTotals ==
  /\ overview.computed =>
       /\ overview.totals = ExpectedOverviewTotals(overview.mealLogs, overview.today)
       /\ Len(overview.mealLogs) = 1 /\ IsExampleLog(overview.mealLogs[1]) =>
            overview.totals =
              IF IsoDate(overview.mealLogs[1].created_at) = overview.today
              THEN [calories |-> Num(500), protein |-> Num(30),
                    carbs |-> Num(50), fat |-> Num(20)]
              ELSE ZeroTotals
  /\ dash.fetched /\ dash.fetchedRows = Len(meal_logs) =>
       dash.nutritionData = ExpectedDashboardTotals(meal_logs, dash.today)

\* C1 witness: Dashboard has summed a table holding a row of today and a row
\* that does not count, and shows the one row's values.
C1_Witness ==
  /\ dash.fetched /\ dash.fetchedRows = 2 /\ Len(meal_logs) = 2
  /\ \E i, j \in 1..2 :
       /\ meal_logs[i].user_id = Me /\ meal_logs[i].meal_date = dash.today
       /\ meal_logs[i].total_calories = Num(2500)
       /\ (meal_logs[j].user_id # Me \/ meal_logs[j].meal_date # dash.today)
  /\ dash.nutritionData.calories = Num(2500)
  /\ dash.nutritionData.protein = Num(30)

----------------------------------------------------------------------------
(* Claims about the macro targets and the progress percentages.             *)

\* (ratio_percent / 100) * total_calories / kcal_per_gram
ClaimedGramTarget(ratio, totalCalories, kcalPerGram) ==
  JsDiv(JsMul(JsDiv(ratio, Num(100)), totalCalories), Num(kcalPerGram))

\* observed / target * 100
ClaimedProgress(observed, target) == JsMul(JsDiv(observed, target), Num(100))

\* C3: for every combination of the three macro ratios and every calorie
\* total, the gram target of a macro is (ratio / 100) * calories / kcal per
\* gram, with 4 for protein, 4 for carbohydrate and 9 for fat, and progress is
\* observed / target * 100 (2000 kcal at 30% protein: 150 g, and 150 g
\* observed is 100%).
C3_MacroGramTargets ==
  overview.computed =>
    LET g == overview.goals
        cal == JsOr(overview.data.calories, Num(0))
        Holds(progress, observed, ratio, kcalPerGram) ==
          Truthy(ratio) /\ cal # Num(0) =>
            progress = ClaimedProgress(JsOr(observed, Num(0)),
                                       ClaimedGramTarget(ratio, cal, kcalPerGram))
    IN  /\ Holds(overview.proteinProgress, overview.data.protein,
                 g.target_protein_ratio, 4)
        /\ Holds(overview.carbsProgress, overview.data.carbs,
                 g.target_carbs_ratio, 4)
        /\ Holds(overview.fatProgress, overview.data.fat,
                 g.target_fat_ratio, 9)

\* C4: every calorie or macro percentage that is displayed is exactly 0
\* whenever the calorie total is 0 or its target ratio or target calories is
\* 0 or undefined.
C4_ZeroWithoutTarget ==
  overview.computed =>
    LET g == overview.goals
        t == overview.totals
        ZeroIf(percentage, ratio) ==
          ~Truthy(ratio) \/ t.calories = Num(0) => percentage = Num(0)
    IN  /\ ~Truthy(g.target_calories) \/ t.calories = Num(0) =>
             overview.percentages.calories = Num(0)
        /\ ZeroIf(overview.percentages.protein, g.target_protein_ratio)
        /\ ZeroIf(overview.percentages.carbs, g.target_carbs_ratio)
        /\ ZeroIf(overview.percentages.fat, g.target_fat_ratio)

\* C7: every value handed to a progress bar lies within [0, 100].
C7_BarsInRange ==
  LET bars == dashboardBars(dash)
  IN  /\ InPercentRange(bars.calories)
      /\ InPercentRange(bars.protein)
      /\ InPercentRange(bars.carbs)
      /\ InPercentRange(bars.fat)
      /\ InPercentRange(tracker.calorieProgress)

----------------------------------------------------------------------------
(* Claims about ProgressTracker.                                            *)

\* The tracker shows a lose-weight goal towards 70 kg at the given weight.
LosingTo70At(t, kg) ==
  /\ t.profile.goal_type = "lose_weight"
  /\ targetWeight(t.profile, t.goals) = Num(70)
  /\ t.profile.weight_kg = Num(kg)

\* C5: for goal_type lose_weight with target weight 70 the weight progress is
\* 0% at a current weight of 80, and 50% once the current weight has become 75.
C5_LoseWeightHalfway ==
  [][/\ LosingTo70At(tracker, 80) => tracker.weightProgress = Num(0)
     /\ LosingTo70At(tracker, 80) /\ LosingTo70At(tracker', 75)
          => tracker'.weightProgress = Num(50)]_vars

\* C6: the weight progress is a number within [0, 100] for every goal type
\* and every pair of current and target weights.
C6_WeightProgressInRange == InPercentRange(tracker.weightProgress)


----------------------------------------------------------------------------
(* Claims about the meal logger.                                            *)

\* The per-serving values of the food called `name`.
PerServing(name) == CHOOSE food \in Foods : food.name = name

\* The rows of meal_food_items that belong to meal log `id`.
ItemsOf(id) == SelectSeq(meal_food_items, LAMBDA row : row.meal_log_id = id)

\* The sum over item rows of per-serving value times quantity, per field.
ExpectedMealTotals(rows) ==
  LET Each(row) == TRUE
      Cal(row) == PerServing(row.name).calories.n * row.quantity.n
      Pro(row) == PerServing(row.name).protein.n * row.quantity.n
      Car(row) == PerServing(row.name).carbs.n * row.quantity.n
      Fat(row) == PerServing(row.name).fat.n * row.quantity.n
  IN  [calories |-> Num(SumWhere(rows, Cal, Each)),
       protein  |-> Num(SumWhere(rows, Pro, Each)),
       carbs    |-> Num(SumWhere(rows, Car, Each)),
       fat      |-> Num(SumWhere(rows, Fat, Each))]

\* C2: for every list of food items submitted through the meal logger, the
\* stored meal log's total_calories, total_protein, total_carbs and total_fat
\* each equal the sum over the items of per-serving value times quantity,
\* and every food item row persisted for that meal keeps its unmultiplied
\* per-serving values together with its quantity.
C2_TotalsTimesQuantity ==
  /\ \A k \in 1..Len(meal_logs) :
       LET rows == ItemsOf(meal_logs[k].id)
       IN  rows # <<>> =>
             /\ [calories |-> meal_logs[k].total_calories,
                 protein  |-> meal_logs[k].total_protein,
                 carbs    |-> meal_logs[k].total_carbs,
                 fat      |-> meal_logs[k].total_fat] = ExpectedMealTotals(rows)
             /\ \A i \in 1..Len(rows) :
                  /\ rows[i].calories = PerServing(rows[i].name).calories
                  /\ rows[i].protein = PerServing(rows[i].name).protein
                  /\ rows[i].carbs = PerServing(rows[i].name).carbs
                  /\ rows[i].fat = PerServing(rows[i].name).fat
                  /\ rows[i].quantity.n \in Quantities
  /\ logger.outcome = "logged" =>
       LET rows == ItemsOf(logger.mealLogId)
           submitted == logger.mealData.food_items
       IN  /\ Len(rows) = Len(submitted)
           /\ \A i \in 1..Len(rows) :
                /\ rows[i].name = submitted[i].name
                /\ rows[i].quantity = submitted[i].quantity

\* A with quantity 2 and B with quantity 1 are stored: 2 * 100 + 250 kcal.
C2_Witness ==
  /\ logger.outcome = "logged"
  /\ \E k \in 1..Len(meal_logs) :
       /\ meal_logs[k].id = logger.mealLogId
       /\ meal_logs[k].total_calories = Num(450)
       /\ meal_logs[k].total_protein = Num(20)
       /\ meal_logs[k].total_carbs = Num(70)
       /\ meal_logs[k].total_fat = Num(20)
  /\ \E i, j \in 1..Len(meal_food_items) :
       /\ meal_food_items[i].meal_log_id = logger.mealLogId
       /\ meal_food_items[j].meal_log_id = logger.mealLogId
       /\ meal_food_items[i].name = "apple"
       /\ meal_food_items[i].quantity = Num(2)
       /\ meal_food_items[i].calories = Num(100)
       /\ meal_food_items[j].name = "bread"
       /\ meal_food_items[j].quantity = Num(1)
       /\ meal_food_items[j].calories = Num(250)


----------------------------------------------------------------------------
(* Claims about goal setting and concurrent saves.                          *)

\* The goals forms that are on screen.
GoalTabs == {t \in Tabs : tabs[t].view = "goals" /\ tabs[t].pc # "loading"}

\* The macro ratios of a row of user_goals.
RatiosOf(row) ==
  MacroRatio(row.target_protein_ratio, row.target_carbs_ratio,
             row.target_fat_ratio)

\* The ratios of a form add up to `total`.
SumsTo(form, total) ==
  form.target_protein_ratio.n + form.target_carbs_ratio.n
    + form.target_fat_ratio.n = total

\* C8 as the code has it: macro ratios that sum to 100 (e.g. {30, 40, 30})
\* are valid and can be saved; ratios whose sum is neither 0 nor 100 (e.g.
\* {30, 40, 40} = 110) show the warning and cannot be saved: the Save Goals
\* button is disabled while the warning shows, so no such ratios are ever
\* submitted or stored.
C8_WarningBlocksSave ==
  /\ \A t \in GoalTabs :
       /\ SumsTo(tabs[t].form, 100) => goalSettingSchema(tabs[t].form)
       /\ SumsTo(tabs[t].form, 100) /\ tabs[t].pc = "idle"
            /\ isDirty(tabs[t].form, tabs[t].defaultValues)
            => ~saveDisabled(tabs[t].form, tabs[t].defaultValues)
       /\ ~SumsTo(tabs[t].form, 100) /\ ~SumsTo(tabs[t].form, 0)
            => /\ showMacroSumWarning(tabs[t].form)
               /\ saveDisabled(tabs[t].form, tabs[t].defaultValues)
       /\ tabs[t].pc \in {"select", "insert", "update"}
            => SumsTo(tabs[t].data, 100) \/ SumsTo(tabs[t].data, 0)
  /\ \A k \in 1..Len(user_goals) :
       SumsTo(RatiosOf(user_goals[k]), 100) \/ SumsTo(RatiosOf(user_goals[k]), 0)

\* One tab has saved {30, 40, 30} over other goals while another tab shows
\* {30, 40, 40} with the warning.
C8_Witness ==
  \E t, u \in GoalTabs :
    /\ tabs[t].outcome = "saved"
    /\ tabs[t].defaultValues = MacroRatio(Num(30), Num(40), Num(30))
    /\ \E k \in 1..Len(user_goals) :
         RatiosOf(user_goals[k]) = MacroRatio(Num(30), Num(40), Num(30))
    /\ tabs[u].pc = "idle"
    /\ tabs[u].form = MacroRatio(Num(30), Num(40), Num(40))
    /\ showMacroSumWarning(tabs[u].form)

\* C8 as the specification states it: ratios whose sum is not 100 are flagged
\* as a warning only, so a changed form that shows the warning can still be
\* submitted: its Save Goals button is enabled and its values pass validation.
C8_WarningOnly ==
  \A t \in GoalTabs :
    /\ tabs[t].pc = "idle"
    /\ isDirty(tabs[t].form, tabs[t].defaultValues)
    /\ showMacroSumWarning(tabs[t].form)
    => /\ ~saveDisabled(tabs[t].form, tabs[t].defaultValues)
       /\ goalSettingSchema(tabs[t].form)

\* C9: after any interleaving of goal saves of one user, user_goals holds at
\* most one row for that user, and every save behaves as an upsert: it
\* creates the row if absent, otherwise updates it, and does not fail because
\* the row already exists.
C9_SaveIsUpsert ==
  /\ Len(rowsOf(user_goals, Me)) <= 1
  /\ \A t \in Tabs :
       tabs[t].view = "goals" => tabs[t].errorCode # "23505"

\* Some table's row of the user changes in this step.
Written(table) == table' # table

\* The row of the user in `table` after the step carries `value`.
StoredAfter(table, value) ==
  \E k \in 1..Len(table) : table[k].user_id = Me /\ table[k] = value

\* C10: when two tabs save the same user's goals, preferences or profile
\* concurrently, both saves complete without any conflict being detected or
\* reported, and the stored row equals the values of whichever write the
\* database applied last.
C10_LastWriteWins ==
  /\ [](\A t \in Tabs : tabs[t].outcome \in {"none", "saved", "invalid"}
                          \/ tabs[t].errorCode = "other")
  /\ [][/\ Written(user_goals) =>
             \E t \in Tabs :
               /\ tabs[t].pc \in {"insert", "update"} /\ tabs'[t].pc = "idle"
               /\ StoredAfter(user_goals', goalsRowOf(tabs[t].data))
        /\ Written(user_preferences) =>
             \E t \in Tabs :
               /\ tabs[t].pc = "upsert" /\ tabs'[t].pc = "idle"
               /\ StoredAfter(user_preferences', SettingRow(Me, tabs[t].value))
        /\ Written(user_profiles) =>
             \E t \in Tabs :
               /\ tabs[t].pc = "upsert" /\ tabs'[t].pc = "idle"
               /\ StoredAfter(user_profiles', SettingRow(Me, tabs[t].value))]_vars


----------------------------------------------------------------------------
(* Claims about AuthProvider.                                               *)

\* C13: after AuthProvider mounts, isAuthReady eventually becomes true
\* whether the initial session lookup succeeds or fails; isLoading is false
\* from then until a sign-in, sign-up or sign-out starts; and once isAuthReady
\* is true it never returns to false.
C13_ReadyEventually ==
  /\ [](auth.phase = "mounted" => <>(auth.isAuthReady \/ auth.phase = "unmounted"))
  /\ [](auth.isAuthReady /\ auth.isLoading => auth.op # "none")
  /\ [][/\ auth.isAuthReady => auth'.isAuthReady
        /\ ~auth.isAuthReady /\ auth'.isAuthReady => ~auth'.isLoading
        /\ auth.isAuthReady /\ ~auth.isLoading /\ auth'.isLoading
             => auth.op = "none" /\ auth'.op # "none"]_vars

\* The initial lookup has failed, the provider is ready and not loading.
C13_Witness ==
  /\ auth.phase = "mounted" /\ auth.isAuthReady /\ ~auth.isLoading
  /\ auth.reported /\ auth.session = NoSession /\ supa.changes = 0
  /\ auth.op = "none" /\ auth.effectRuns = 2

\* Nothing is in flight between the provider and the client.
AuthQuiescent ==
  /\ auth.phase = "mounted" /\ auth.op = "none"
  /\ auth.effectReady = auth.isAuthReady
  /\ supa.getSession = {} /\ supa.events = <<>>

\* C19: whatever the order in which the initial getSession result and the
\* auth-state-change events are delivered, once all of them have been
\* processed the provider's user and session equal the client's most recent
\* session; a late initial-session result never overwrites a newer change.
C19_LatestSessionWins ==
  AuthQuiescent /\ ~auth.reported =>
    auth.session = supa.session /\ auth.user = userOf(supa.session)


----------------------------------------------------------------------------
(* Claims about subscriptions.                                              *)

\* C11: every real-time subscription (and the auth-state listener)
\* registered when a component's effect runs is unsubscribed by that effect's
\* teardown on every path (user absent, fetch failed, fetch still pending,
\* dependency change), so a mounted component never holds more than one
\* active subscription per channel and an unmounted component holds none.
C11_OneSubscription ==
  /\ supa.listeners =
       IF auth.phase = "mounted" THEN {auth.listener} ELSE {}
  /\ \A c \in Subscribers :
       channels[c] =
         IF widget.component = c /\ widget.phase = "mounted" THEN 1 ELSE 0

\* GoalSetting has unmounted while its fetch was pending, after its effect
\* had run again for a new user, and AuthProvider's effect has run twice.
C11_Witness ==
  /\ widget.component = "GoalSetting" /\ widget.phase = "unmounted"
  /\ widget.fetch = "pending" /\ widget.effectUser # "null"
  /\ channels["GoalSetting"] = 0
  /\ auth.effectRuns = 2 /\ supa.listeners = {2}


----------------------------------------------------------------------------
(* Claims about loading flags.                                              *)

\* The remote calls of the component that have not answered.
CallsInFlight == loader.first + loader.second

\* C12: for every asynchronous fetch or save, the loading flag raised when
\* the call starts is eventually lowered when the call completes, on success
\* and on error alike; no execution path leaves the UI in its loading state
\* after the remote call has returned.
C12_FlagLowered ==
  /\ [](loader.calls > 0 /\ CallsInFlight = 0 => ~loader.flag)
  /\ [][CallsInFlight' < CallsInFlight /\ CallsInFlight' = 0 => ~loader'.flag]_vars
  /\ (CallsInFlight > 0) ~> (CallsInFlight = 0 /\ ~loader.flag)

\* A call has failed, its error is reported, and the flag is down.
C12_Witness ==
  /\ loader.component = "useMealLogging" /\ loader.calls > 0
  /\ CallsInFlight = 0 /\ loader.reported /\ ~loader.flag


----------------------------------------------------------------------------
(* Claims about remote requests.                                            *)

----------------------------------------------------------------------------
(* Claims about the barcode scanner.                                        *)

\* C15: when a scanned barcode has no matching catalog row (the lookup
\* reports 'no rows'), the scanner shows a non-error 'Food Not Found' toast,
\* does not throw or invoke the error handler, and does not call
\* onBarcodeScanned; any other lookup error goes to the error handler.
C15_NotFoundIsNoError ==
  /\ [](LET l == scanner.last
     IN  /\ l.answer.error = "PGRST116" =>
              /\ l.outcome.toast = "Food Not Found"
              /\ l.outcome.status # "error"
              /\ ~l.outcome.handled /\ ~l.outcome.scanned
         /\ l.answer.error = "other" =>
              l.outcome.handled /\ ~l.outcome.scanned
         /\ l.barcode = "b2" /\ l.answer.error # "other" =>
              l.answer.error = "PGRST116")
  /\ [][LET l == scanner'.last
        IN  scanner' # scanner /\ scanner'.pending \subseteq scanner.pending
              /\ scanner'.pending # scanner.pending =>
              /\ scanner'.handleErrorCalls =
                   scanner.handleErrorCalls + (IF l.answer.error = "other" THEN 1 ELSE 0)
              /\ scanner'.onBarcodeScannedCalls =
                   scanner.onBarcodeScannedCalls + (IF l.answer.error = "none" THEN 1 ELSE 0)]_vars

\* An unknown barcode was looked up after a lookup that failed otherwise.
C15_Witness ==
  /\ scanner.last.barcode = "b2" /\ scanner.last.answer.error = "PGRST116"
  /\ scanner.last.outcome.toast = "Food Not Found"
  /\ scanner.handleErrorCalls = 1 /\ scanner.onBarcodeScannedCalls = 0
  /\ scanner.decoded = 2


----------------------------------------------------------------------------
(* Claims about the webhook proxy routes.                                   *)

\* C16: each webhook proxy route forwards the JSON body it receives to the
\* workflow engine unchanged (no field added, dropped or defaulted) and
\* relays the engine's response body to the caller unchanged.
C16_ForwardsOneToOne ==
  /\ proxy.pc \in {"fetch", "relayed"} => proxy.forwarded = proxy.received
  /\ proxy.pc = "relayed" /\ proxy.response.body # "not json" =>
       proxy.reply.body = proxy.response.body


----------------------------------------------------------------------------
(* Claims about the recommendation heuristic.                               *)

InSeq(x, seq) == \E i \in 1..Len(seq) : seq[i] = x
CalorieAdviceIs(under, over) ==
  /\ InSeq("under target", card.recommendations) <=> under
  /\ InSeq("over target", card.recommendations) <=> over

\* C17: when a non-zero calorie target is set, the heuristic emits the
\* under-target message exactly when target_calories - consumed_calories >
\* 500 and the over-target message exactly when consumed_calories -
\* target_calories > 500, never both, and neither when the difference is
\* within 500 in either direction; without a target (missing or 0) it emits
\* neither.  The recommendations are a function of the totals, the goals and
\* the profile.
C17_CalorieAdvice ==
  LET target == card.goals.target_calories
      consumed == card.totals.calories
  IN  /\ card.recommendations =
           getRecommendations(card.goals, card.totals, card.profile)
      /\ ~(InSeq("under target", card.recommendations)
             /\ InSeq("over target", card.recommendations))
      /\ IF IsNum(target) /\ target.n # 0
         THEN CalorieAdviceIs(target.n - consumed.n > 500 * target.d,
                              consumed.n - target.n > 500 * target.d)
         ELSE CalorieAdviceIs(FALSE, FALSE)

\* 1501 kcal against a target of 1000 gives the over-target message, and
\* nothing else does.
C17_Witness ==
  /\ card.goals.target_calories = Num(1000)
  /\ card.totals.calories = Num(1501)
  /\ card.recommendations = <<"over target">>

\* C17 as stated, for every numeric target, 0 included: the messages follow
\* the two differences alone.
C17_AnyTarget ==
  LET target == card.goals.target_calories
      consumed == card.totals.calories
  IN  IsNum(target) =>
        CalorieAdviceIs(target.n - consumed.n > 500,
                        consumed.n - target.n > 500)


----------------------------------------------------------------------------
(* Claims about logMeal.                                                    *)

\* C18: logMeal is all-or-nothing: once a call has ended, failed calls have
\* left no meal_logs row behind, so every stored meal log has the food items
\* it was submitted with.
C18_AllOrNothing ==
  logger.pc = "idle" =>
    \A i \in 1..Len(meal_logs) :
      \E j \in 1..Len(meal_food_items) :
        meal_food_items[j].meal_log_id = meal_logs[i].id


----------------------------------------------------------------------------
(* Claims about goalSettingSchema.                                          *)

\* C20: every goals record accepted by goalSettingSchema with its three
\* macro ratios provided (a ratio of 0 included) has ratios that sum to 100;
\* a record with any other sum is rejected.
C20_AcceptedSumsTo100 ==
  \A t \in Tabs :
    tabs[t].view = "goals" /\ tabs[t].pc \in {"select", "insert", "update"}
      => SumsTo(tabs[t].data, 100)


----------------------------------------------------------------------------
(* Claims about signing up.                                                 *)

\* C21: whenever the auth provider's sign-up succeeds, signUp returns
\* {user, error: null} whether triggerOnboarding resolves or throws, and
\* isLoading is false afterwards.
C21_OnboardingFailureIgnored ==
  signup.pc \in {"returned", "idle"} /\ signup.answer = "user" =>
    /\ signup.onboarding \in OnboardingOutcomes
    /\ signup.result = [user |-> signup.email, error |-> "null"]
    /\ signup.email \in signup.accounts
    /\ ~signup.isLoading /\ ~signup.handled

\* signUp has returned the user although triggerOnboarding threw.
C21_Witness ==
  /\ signup.pc = "returned" /\ signup.answer = "user"
  /\ signup.onboarding = "throws: not ok"
  /\ signup.result.user = signup.email /\ ~signup.isLoading

\* C22: SignUpForm shows the 'Account Created Successfully!' toast, resets
\* the form and calls onSuccess only when signUp created the account; when
\* signUp reports an error, none of these happen.
C22_SuccessOnlyWhenCreated ==
  /\ signup.toast \/ signup.reset \/ signup.onSuccess =>
       signup.answer = "user" /\ signup.result.error = "null"
  /\ signup.pc = "idle" /\ signup.result.error = "error" =>
       ~signup.toast /\ ~signup.reset /\ ~signup.onSuccess

----------------------------------------------------------------------------
(* Claims about the chat.                                                   *)

\* The number of rows of chat_interactions that hold the text.
RowsHolding(text) ==
  Cardinality({i \in 1..Len(chat_interactions) :
                 chat_interactions[i].message = text})

\* C23: sending one non-empty chat message, when every remote step
\* succeeds, appends exactly one chat_interactions row holding the user's
\* message and exactly one row holding the bot's reply, and relays the text
\* to the webhook proxy exactly once.
C23_OneRowPerMessage ==
  chat.outcome = "done" /\ chat.sent = 1 =>
    /\ RowsHolding(chat.message) = 1
    /\ RowsHolding(chat.botResponse) = 1
    /\ chat.relays = 1


\* The rows of the user that are not archived.
ActiveRows ==
  {i \in 1..Len(chat_interactions) :
     chat_interactions[i].user_id = Me /\ ~chat_interactions[i].archived}

\* C24: after any sequence of successful save-chat-data requests for a
\* user, the only non-archived chat_interactions rows of that user are the
\* two rows inserted by the latest request (one user message, one bot
\* message), and those two rows carry the same session_id.
C24_OnlyLatestSessionActive ==
  (/\ \A r \in Requests : saves.handler[r].pc \in {"idle", "done"}
   /\ \A r \in Requests : saves.handler[r].status \in {0, 200}
   /\ saves.latest # 0) =>
    /\ Cardinality(ActiveRows) = 2
    /\ \A i \in ActiveRows : chat_interactions[i].writer = saves.latest
    /\ \A i, j \in ActiveRows :
         chat_interactions[i].session_id = chat_interactions[j].session_id
    /\ \E i, j \in ActiveRows :
         /\ chat_interactions[i].is_bot = "false"
         /\ chat_interactions[j].is_bot = "true"


----------------------------------------------------------------------------
(* Claims about the onboarding wizard.                                      *)

\* C25: the onboarding step saved to localStorage is restored on mount: a
\* wizard left at step s without submitting and mounted again resumes at
\* step s.
C25_StepRestored ==
  [][~wizard.mounted /\ wizard'.mounted /\ wizard.onboardingStep # NoItem
       => wizard'.step = parseInt(wizard.onboardingStep)]_vars

\* C26: if the per-step validation passes for step 1, step 2 and step 3,
\* the final submission passes onboardingSchema: every field the schema can
\* reject is in the list validated by one of the steps.
C26_StepsCoverSchema ==
  wizard.outcome = "rejected" =>
    \E s \in 1..3 : ~validateCurrentStep(s, wizard.invalid)


----------------------------------------------------------------------------
(* Claims about calendar dates.                                             *)

\* C27: for every time-zone offset and time of day, a meal saved with the
\* meal logger's default meal_date (the local calendar date) is included in
\* the dashboard's today totals when the dashboard is loaded at that same
\* instant: the totals a load stores are those of the rows dated with the
\* local date of the load.
C27_LocalDateIsToday ==
  [][dash.pc = "idle" /\ dash'.pc = "goals" =>
       dash'.nutritionData =
         dashboardNutrition(todaysMeals(meal_logs, Me, LocalDate(now, tz)))]_vars


----------------------------------------------------------------------------
(* Claims about overlapping food searches.                                  *)

\* C28: when two food searches are in flight at the same time, after both
\* responses have arrived the displayed results are those of the most
\* recently issued search, whatever the order of the responses.
C28_LatestSearchShown ==
  /\ search.inflight = {} /\ search.failures = 0
  /\ search.searchResults # NoResults
  => search.searchResults.id = search.issued


----------------------------------------------------------------------------
(* Claims about the dashboard's recommendations.                            *)

\* The nutrition, goals and weight-history fetches have completed.
FetchesCompleted ==
  /\ advice.effectRan /\ advice.weightFetched
  /\ dash.fetched /\ dash.pc = "idle"
  /\ Len(rowsOf(user_goals, Me)) = 1
  /\ dash.goals = mappedGoals(rowsOf(user_goals, Me)[1])

\* C29: once the dashboard's nutrition, goals and weight-history fetches
\* have completed, the displayed recommendations are the ones computed from
\* the fetched values: 'below your calorie goal' is shown only if the
\* fetched calories are under 80% of the fetched goal, and 'above' only if
\* they are over 120%.
C29_AdviceFromFetchedValues ==
  FetchesCompleted =>
    LET caloriePercentage ==
          JsMul(JsDiv(dash.nutritionData.calories, dash.goals.calories), Num(100))
    IN  /\ InSeq("below calorie goal", advice.recommendations)
             => Below(caloriePercentage, Num(80))
        /\ InSeq("above calorie goal", advice.recommendations)
             => Below(Num(120), caloriePercentage)

----------------------------------------------------------------------------
(* Claims about the entries of the meal form.                               *)

\* The entries of the form with the name and the unit of a food.
Matching(entries, food) ==
  {i \in 1..Len(entries) :
     entries[i].name = food.name /\ entries[i].unit = food.unit}

NoTwoAlike(entries) ==
  \A i, j \in 1..Len(entries) :
    (entries[i].name = entries[j].name
       /\ entries[i].unit = entries[j].unit) => i = j

\* This step is handleAddFoodItem(food) with the quantity q.
AddedBy(food, q) ==
  /\ logger'.food_items = handleAddFoodItem(logger.food_items, food, q)
  /\ logger' = [logger EXCEPT !.food_items = logger'.food_items]

\* What the form holds after the food is added with the quantity q.
MergedOrAppended(food, q) ==
  LET before == logger.food_items
      after == logger'.food_items
  IN  IF Matching(before, food) # {}
      THEN /\ Len(after) = Len(before)
           /\ \E i \in Matching(before, food) :
                /\ after[i].quantity = JsAdd(before[i].quantity, Num(q))
                /\ \A j \in 1..Len(before) : j # i => after[j] = before[j]
                /\ [after[i] EXCEPT !.quantity = before[i].quantity] = before[i]
      ELSE /\ Len(after) = Len(before) + 1
           /\ SubSeq(after, 1, Len(before)) = before
           /\ after[Len(after)].name = food.name
           /\ after[Len(after)].unit = food.unit
           /\ after[Len(after)].quantity = Num(q)

\* C30: from an empty meal form on, food_items holds no two entries with
\* the same name and unit; handleAddFoodItem with a food whose name and unit
\* match an entry raises that entry's quantity by the added quantity and
\* leaves the number of entries unchanged, and otherwise appends exactly one
\* entry.
C30_NoTwoEntriesAlike ==
  /\ [](NoTwoAlike(logger.food_items))
  /\ [][\A food \in Foods, q \in Quantities :
          AddedBy(food, q) => MergedOrAppended(food, q)]_vars

\* A second food was appended and the first one was added again, on its
\* existing entry.
C30_Witness ==
  /\ Len(logger.food_items) = 2
  /\ logger.food_items[1].quantity = Num(2)
  /\ logger.food_items[1].name # logger.food_items[2].name
====
